---- MODULE Spec2Model ----
(***************************************************************************)
(* Verification model of the real-time collaboration core of               *)
(* appflowy_server: the per-object outbound sink of the client             *)
(* (libs/client-api/src/collab_sync/sink.rs) and the server-side            *)
(* per-object client channel and collab group                               *)
(* (libs/realtime/src/collaborate).                                         *)
(***************************************************************************)
EXTENDS Integers, Sequences, FiniteSets, TLC

(***************************************************************************)
(* Bounds of the model.                                                     *)
(***************************************************************************)
\* number of msg-ids one sink hands out in a run
MaxMsgs == 3
\* SinkConfig.maximum_payload_size, counted in original payloads
MaxPayload == 2
\* number of edits one client makes in a run
MaxEdits == 1
\* number of frames a channel of the server holds in the model
MaxChan == 1

\* connections a user opens
MaxSessions == 1
\* subscriptions made to one group in a run
MaxSubs == 3
\* snapshots created in a run
MaxSnapshots == 4
\* largest snapshot_limit of a call
MaxLimit == 2
\* the clock of the coordination store stops here (seconds)
MaxNow == 140
\* snapshot attempts of one server instance
MaxAttempts == 2
\* how often the clock of the group registry advances
MaxAdvances == 3
\* command channels created in a run
MaxChans == 2
\* how often the sweeper removes the sender of one object
MaxSweeps == 1
\* capacity of a command channel in the model
ChanCap == 1
\* sends whose timeout is recorded
MaxSends == 2
\* commands sent to the group control runner
MaxCommands == 3
\* updates counted beyond the snapshot threshold
MaxOver == 2

\* capacity of the broadcast channel of a client stream (1000 in the code)
BcastCap == 2

\* capacity of the channel from the forwarder to the group (100 in the code)
StreamCap == 1

\* frames a connection delivers
MaxFrames == 4

(***************************************************************************)
(* Part I.  The outbound sink: CollabSink + CollabSinkRunner.               *)
(***************************************************************************)
VARIABLES
  message_queue,   \* SinkQueue: the set of QueueItems (heap order is Higher)
  msg_id_counter,  \* DefaultMsgIdCounter
  pause,           \* CollabSink.pause
  notified,        \* the notifier watch channel holds an unseen value
  retry,           \* a retry_later task is sleeping
  pc,              \* where the runner task is suspended
  sending,         \* collab_msg: the clone the runner hands to the transport
  rx,              \* the runner's oneshot receiver: none, open, fired, closed
  queue_locked,    \* another task holds the message_queue mutex
  sender_locked,   \* another task holds the transport mutex
  sink_state,      \* last value published on state_notifier
  assigned,        \* history: msg-ids in the order the counter handed them out
  last             \* history: the operation that made the last step

sinkVars == <<message_queue, msg_id_counter, pause, notified, retry, pc, sending,
              rx, queue_locked, sender_locked, sink_state, assigned, last>>

(***************************************************************************)
(* Part II.  The server: the per-object client channel of a connection      *)
(* (CollabClientStream::client_channel with the filters of                  *)
(* SubscribeGroup::make_channel) and the collab group of one object.        *)
(***************************************************************************)
VARIABLES
  level,         \* access controller: the access level of each user on the object
  connected,     \* the user has a client stream and is a subscriber of the group
  sessions,      \* number of connections each user opened
  client_doc,    \* the document of each client: the set of updates it integrated
  next_edit,     \* number of edits each client made
  plan,          \* number of edits each client is going to make
  inbound,       \* per user: frames in stream_tx, not yet seen by the stream filter
  group_stream,  \* per user: frames forwarded to the group (client_forward_stream)
  gpc,           \* the group's consumer: the update it is handling, and the stage
  doc,           \* the group's document: the set of updates it integrated
  log,           \* the durable log of the object
  cli_sink,      \* per user: messages the group wrote to client_forward_sink
  seen,          \* history: per user, the updates the server delivered to it
  rcvd,          \* history: per user, the broadcast updates in the order they came
  allowed,       \* history: updates of frames forwarded while can-send was true
  perm_ok,       \* history: every user had write access and no filter was refused
  glast          \* history: the operation that made the last step

groupVars == <<level, connected, sessions, client_doc, next_edit, plan, inbound,
               group_stream, gpc, doc, log, cli_sink, seen, rcvd, allowed, perm_ok,
               glast>>

(***************************************************************************)
(* Part III.  The subscriber set of one CollabGroup (group.rs).             *)
(***************************************************************************)
VARIABLES
  subscribers,           \* CollabGroup.subscribers: entries [user, sub]
  user_by_user_device,   \* CollabGroup.user_by_user_device
  live,                  \* subscriptions whose forwarding tasks run (not stopped)
  pending_stop,          \* subscriptions whose stop was spawned and did not run yet
  next_sub,              \* number of subscriptions made
  superseded,            \* history: subscriptions replaced by a later subscribe
  got,                   \* history: subscriptions the last broadcast reached
  slast                  \* history: the operation that made the last step

subVars == <<subscribers, user_by_user_device, live, pending_stop, next_sub,
             superseded, got, slast>>

(***************************************************************************)
(* Part IV.  The af_collab table and insert_into_af_collab                  *)
(* (libs/database/src/collab/collab_db_ops.rs).                             *)
(***************************************************************************)
VARIABLES
  af_collab,          \* table af_collab: per oid, a row or NoRow
  af_collab_member,   \* table af_collab_member: rows [uid, oid]
  txn,                \* per transaction: the call it runs and where it is
  dlast               \* history: the operation that made the last step

dbVars == <<af_collab, af_collab_member, txn, dlast>>

(***************************************************************************)
(* Part V.  The af_collab_snapshot table and                                *)
(* create_snapshot_and_maintain_limit (collab_db_ops.rs).                   *)
(***************************************************************************)
VARIABLES
  af_collab_snapshot,  \* table af_collab_snapshot: rows [sid, oid, created_at]
  next_sid,            \* the sequence of sid, which is also the clock of created_at
  stx,                 \* per transaction: the call it runs and where it is
  plast                \* history: the operation that made the last step

snapVars == <<af_collab_snapshot, next_sid, stx, plast>>

(***************************************************************************)
(* Part VI.  The snapshot lease (collab-stream client.rs) held in the      *)
(* coordination store and the server instances that race for it.            *)
(***************************************************************************)
VARIABLES
  lease_store,   \* per lease key: the token stored and when it expires
  now,           \* the clock of the coordination store, in seconds
  snapshotter,   \* per server instance: its snapshot attempt
  llast          \* history: the operation that made the last step

leaseVars == <<lease_store, now, snapshotter, llast>>

(***************************************************************************)
(* Part VII.  The registry of groups (CollabGroupControl, group.rs) and the *)
(* periodic tick that removes the inactive ones.                            *)
(***************************************************************************)
VARIABLES
  group_by_object_id,  \* the registry: per object id a group or none
  advances,            \* how often the clock has advanced
  tick_pending,        \* inactive_group_ids of the tick that is running
  tick_seen,           \* history: the idle time the running tick saw, per id
  user_count,          \* per object id: the subscribers of its group
  live_groups,         \* per object id: the groups made for it and not stopped
  tlast                \* history: the operation that made the last step

regVars == <<group_by_object_id, advances, tick_pending, tick_seen, user_count, live_groups,
             tlast>>

(***************************************************************************)
(* Part VIII.  Connections (CollaborationServer, rt_server.rs): the        *)
(* connect state, the routers and the groups the connected users are in.    *)
(***************************************************************************)
VARIABLES
  user_by_device,          \* connect_state.user_by_device
  client_message_routers,  \* connect_state.client_message_routers: its keys
  editing_by_user,         \* the group manager: the (user, object) subscribers
  conn_pending,            \* handlers between their two steps
  ever_connected,          \* the users that have connected
  clast                    \* history: the operation that made the last step

connVars == <<user_by_device, client_message_routers, editing_by_user, conn_pending,
              ever_connected, clast>>

(***************************************************************************)
(* Part IX.  The command front-end (handle_client_message and the sweeper  *)
(* of rt_server.rs): the senders by object id, the command channels, their  *)
(* consumers and the tasks that send.                                       *)
(***************************************************************************)
VARIABLES
  group_sender_by_object_id,  \* per object id: the channel of its sender, or 0
  chan,                       \* per channel: object id, epoch, queue, consumer
  calls,                      \* per handle_client_message call: where it is
  sweeps,                     \* per object id: how often its sender was swept
  flast                       \* history: the operation that made the last step

frontVars == <<group_sender_by_object_id, chan, calls, sweeps, flast>>

(***************************************************************************)
(* Part X.  The ack timeout of the outbound sink: calculate_timeout.        *)
(***************************************************************************)
VARIABLES
  send_timeout,  \* SinkConfig.send_timeout, in seconds
  timeouts       \* history: payload length and timeout_duration of each send

timeoutVars == <<send_timeout, timeouts>>

(***************************************************************************)
(* Part XI.  GroupControlRunner::run: the consumer of the group control     *)
(* commands and the oneshot channels it answers on.                         *)
(***************************************************************************)
VARIABLES
  recv,     \* GroupControlCommandReceiver: the commands not yet taken
  control,  \* CollabGroupControl: the object ids in group_by_object_id
  ret,      \* per requester: its oneshot channel and the value it carries
  running,  \* the for_each loop of run has not ended
  issued,   \* history: every command sent, in order
  handled   \* history: every command the runner completed, in order

runnerVars == <<recv, control, ret, running, issued, handled>>

(***************************************************************************)
(* Part XII.  SnapshotGenerator of collab-history: the update counter and   *)
(* the snapshot attempts it spawns.                                         *)
(***************************************************************************)
VARIABLES
  generator,  \* SnapshotGenerator: collab_type and apply_update_count
  applying,   \* per did_apply_update call: where it is, and the count it fetched
  applied,    \* history: the number of updates counted
  attempts    \* history: the number of snapshot attempts spawned

genVars == <<generator, applying, applied, attempts>>

(***************************************************************************)
(* Part XIII.  The inbound forwarder of a per-object client channel:        *)
(* CollabClientStream::client_channel and forward_message_to_collab_group.  *)
(***************************************************************************)
VARIABLES
  stream_tx,              \* the values the broadcast channel retains for stream_rx, oldest first
  lagged,                 \* stream_rx has missed values that were overwritten
  forwarder,              \* the forwarding task: its position and the message it holds
  client_forward_stream,  \* the channel from the forwarder to the group
  group_read,             \* history: the messages the group has taken from its stream
  frames_sent             \* history: the frames handed to forward_message_to_collab_group

forwardVars == <<stream_tx, lagged, forwarder, client_forward_stream, group_read, frames_sent>>

(***************************************************************************)
(* Part XIV.  CollabServer: the handlers of Connect and Disconnect with     *)
(* remove_user, and SubscribeGroup::run (collaborate/server.rs,             *)
(* collaborate/group_sub.rs).                                               *)
(***************************************************************************)
VARIABLES
  client_stream_by_user,   \* the users that have a registered client stream
  editing_collab_by_user,  \* per user, the object ids of its Editing entries
  cached_groups,           \* the object ids that have a group in the cache
  group_users,             \* per object id, the subscribers of its group
  removals,                \* per handler task: the remove_user it runs and where it is
  subscribing,             \* per user, the object a suspended SubscribeGroup::run subscribes to
  vlast                    \* history: the operation that made the last step

serverVars == <<client_stream_by_user, editing_collab_by_user, cached_groups, group_users, removals, subscribing, vlast>>

(***************************************************************************)
(* Part XV.  spawn_rt_command: the task that serves GetEncodeCollab         *)
(* (libs/realtime/src/server/command.rs).                                   *)
(***************************************************************************)
VARIABLES
  command_recv,  \* the RTCommand channel: the requests not yet taken, oldest first
  rt_task,       \* the task of spawn_rt_command: its position and the request it holds
  ret_reply      \* per requester, what its reply channel has got

rtVars == <<command_recv, rt_task, ret_reply>>

\* the parts after Part II
restVars == <<subVars, dbVars, snapVars, leaseVars, regVars, connVars, frontVars, timeoutVars, runnerVars, genVars, forwardVars, serverVars, rtVars>>

\* what the actions of each part leave alone
notSubVars == <<sinkVars, groupVars, dbVars, snapVars, leaseVars, regVars, connVars, frontVars, timeoutVars, runnerVars, genVars, forwardVars, serverVars, rtVars>>
notDbVars == <<sinkVars, groupVars, subVars, snapVars, leaseVars, regVars, connVars, frontVars, timeoutVars, runnerVars, genVars, forwardVars, serverVars, rtVars>>
notSnapVars == <<sinkVars, groupVars, subVars, dbVars, leaseVars, regVars, connVars, frontVars, timeoutVars, runnerVars, genVars, forwardVars, serverVars, rtVars>>
notLeaseVars == <<sinkVars, groupVars, subVars, dbVars, snapVars, regVars, connVars, frontVars, timeoutVars, runnerVars, genVars, forwardVars, serverVars, rtVars>>
notRegVars == <<sinkVars, groupVars, subVars, dbVars, snapVars, leaseVars, connVars, frontVars, timeoutVars, runnerVars, genVars, forwardVars, serverVars, rtVars>>
notConnVars == <<sinkVars, groupVars, subVars, dbVars, snapVars, leaseVars, regVars, frontVars, timeoutVars, runnerVars, genVars, forwardVars, serverVars, rtVars>>
notFrontVars == <<sinkVars, groupVars, subVars, dbVars, snapVars, leaseVars, regVars, connVars, timeoutVars, runnerVars, genVars, forwardVars, serverVars, rtVars>>

notTimeoutVars == <<sinkVars, groupVars, subVars, dbVars, snapVars, leaseVars, regVars, connVars, frontVars, runnerVars, genVars, forwardVars, serverVars, rtVars>>

notRunnerVars == <<sinkVars, groupVars, subVars, dbVars, snapVars, leaseVars, regVars, connVars, frontVars, timeoutVars, genVars, forwardVars, serverVars, rtVars>>

notGenVars == <<sinkVars, groupVars, subVars, dbVars, snapVars, leaseVars, regVars, connVars, frontVars, timeoutVars, runnerVars, forwardVars, serverVars, rtVars>>

notForwardVars == <<sinkVars, groupVars, subVars, dbVars, snapVars, leaseVars, regVars, connVars, frontVars, timeoutVars, runnerVars, genVars, serverVars, rtVars>>

notServerVars == <<sinkVars, groupVars, subVars, dbVars, snapVars, leaseVars, regVars, connVars, frontVars, timeoutVars, runnerVars, genVars, forwardVars, rtVars>>

notRtVars == <<sinkVars, groupVars, subVars, dbVars, snapVars, leaseVars, regVars, connVars, frontVars, timeoutVars, runnerVars, genVars, forwardVars, serverVars>>

notFrontRtVars == <<sinkVars, groupVars, subVars, dbVars, snapVars, leaseVars, regVars, connVars, timeoutVars, runnerVars, genVars, forwardVars, serverVars>>

vars == <<sinkVars, groupVars, restVars>>

Kinds == {"Init", "Update", "Awareness"}

Users == {"u1", "u2"}

\* the group's consumer between two messages
Idle == [stage |-> "idle", user |-> "none", payload |-> {}]

\* a user of the realtime server: RealtimeUser
RUsers == [uid : {1}, device_id : {"a", "b"}, session : {1, 2}]

UserDevices == {"1:a", "1:b"}

\* no user: the None of an Option<RealtimeUser>
NoUser == [uid |-> 0, device_id |-> "none", session |-> 0]

\* the group of Part III as constructed
SubIdle ==
  /\ subscribers = {}
  /\ user_by_user_device = [d \in UserDevices |-> NoUser]
  /\ live = {}
  /\ pending_stop = {}
  /\ next_sub = 0
  /\ superseded = {}
  /\ got = {}
  /\ slast = [op |-> "new"]

\* the object-id the calls of Part IV are made for
Oids == {"o1"}

Workspaces == {"w1", "w2"}

Uids == {1, 2}

Blobs == {"b1", "b2"}

TxIds == {"t1", "t2"}

NoRow == [workspace_id |-> "none", blob |-> "none", owner_uid |-> 0]

NoCall == [pc |-> "idle", uid |-> 0, oid |-> "none", workspace_id |-> "none",
           blob |-> "none", existing |-> "none", write |-> "none", ret |-> "none"]

\* the database of Part IV, empty
DbIdle ==
  /\ af_collab = [o \in Oids |-> NoRow]
  /\ af_collab_member = {}
  /\ txn = [t \in TxIds |-> NoCall]
  /\ dlast = [op |-> "new", tx |-> "none"]

SnapOids == {"o1", "o2"}

NoSnapshot == [sid |-> 0, oid |-> "none", created_at |-> 0]

NoSnapCall == [pc |-> "idle", oid |-> "none", snapshot_limit |-> 0,
               row |-> NoSnapshot, deleted |-> {}]

\* the snapshot table of Part V, empty
SnapIdle ==
  /\ af_collab_snapshot = {}
  /\ next_sid = 1
  /\ stx = [t \in TxIds |-> NoSnapCall]
  /\ plast = [op |-> "new", tx |-> "none"]

Instances == {"n1", "n2"}

\* format!("af:{}:{}:snapshot_lease", workspace_id, object_id)
lease_key(workspace_id, object_id) == <<"af", workspace_id, object_id, "snapshot_lease">>

LeaseKeys == {lease_key(w, o) : w \in Workspaces, o \in Oids}

NoLease == [token |-> <<"none", 0>>, expires |-> 0]

NoAttempt == [pc |-> "idle", key |-> <<>>, at |-> 0, tries |-> 0]

\* the coordination store of Part VI, empty, and no instance snapshotting
LeaseIdle ==
  /\ lease_store = [k \in LeaseKeys |-> NoLease]
  /\ now = 0
  /\ snapshotter = [i \in Instances |-> NoAttempt]
  /\ llast = [op |-> "new", by |-> "none", ret |-> "none"]

GroupIds == {"g1", "g2"}

\* the object ids the registry can hold
AllGroupIds == GroupIds \cup {"g3", "g4", "g5", "g6", "g7"}

CollabTypes == {"Document", "Database", "DatabaseRow", "WorkspaceDatabase", "Folder",
                "UserAwareness"}

NoGroup == [collab_type |-> "none", idle |-> 0]

\* the registry of Part VII, empty, and no tick running
RegIdle ==
  /\ group_by_object_id = [o \in AllGroupIds |-> NoGroup]
  /\ advances = 0
  /\ tick_pending = {}
  /\ tick_seen = [o \in AllGroupIds |-> 0]
  /\ user_count = [o \in AllGroupIds |-> 0]
  /\ live_groups = [o \in AllGroupIds |-> IF group_by_object_id[o] = NoGroup THEN 0 ELSE 1]
  /\ tlast = [op |-> "new", oid |-> "none", found |-> FALSE]

\* the connect state of Part VIII: nobody connected
ConnIdle ==
  /\ user_by_device = [d \in UserDevices |-> NoUser]
  /\ client_message_routers = {}
  /\ editing_by_user = {}
  /\ conn_pending = {}
  /\ ever_connected = {}
  /\ clast = [op |-> "new", user |-> NoUser, old |-> NoUser, left |-> {}]

Callers == {"c1", "c2", "c3"}

ChanIds == 1 .. MaxChans

NoChan == [oid |-> "none", epoch |-> 0, queue |-> <<>>, consumer |-> "none", cur |-> "none",
           left |-> {}]

NoCallYet == [pc |-> "idle", oid |-> "none", chan |-> 0, epoch |-> 0, saw_none |-> FALSE,
              prior |-> {}]

\* the front-end of Part IX as constructed: no sender, no channel
FrontIdle ==
  /\ group_sender_by_object_id = [o \in Oids |-> 0]
  /\ chan = [c \in ChanIds |-> NoChan]
  /\ calls = [h \in Callers |-> NoCallYet]
  /\ sweeps = [o \in Oids |-> 0]
  /\ flast = [op |-> "new", by |-> "none"]

\* SinkConfig.send_timeout values, in seconds
SendTimeouts == {1, 6, 10, 11, 60}

\* payload lengths around the thresholds of the timeout table
PayloadLens ==
  {0, 1, 40958, 40959, 40960, 40961, 1048575, 1048576, 1048577, 1048578,
   2097151, 2097152, 2097153, 2097154, 4194303, 4194304, 4194305, 8388608}

\* the timeout part as constructed: nothing was sent
TimeoutIdle ==
  /\ send_timeout = 6
  /\ timeouts = <<>>

Requesters == {"r1", "r2"}

NoRet == [st |-> "none", val |-> "none"]

\* the runner part as constructed: no command was sent
RunnerIdle ==
  /\ recv = <<>>
  /\ control = {}
  /\ ret = [r \in Requesters |-> NoRet]
  /\ running = TRUE
  /\ issued = <<>>
  /\ handled = <<>>

Appliers == {"a1", "a2"}

NoGenerator == [collab_type |-> "none", apply_update_count |-> 0]

NotApplying == [pc |-> "idle", prev |-> 0]

\* the snapshot generator part before a generator is made
GenIdle ==
  /\ generator = NoGenerator
  /\ applying = [a \in Appliers |-> NotApplying]
  /\ applied = 0
  /\ attempts = 0

\* the forwarder holds no message
NoFrame == [n |-> 0, object |-> "none", kind |-> "none"]

\* Part XIII before client_channel is called for the connection
ForwardIdle ==
  /\ stream_tx = <<>>
  /\ lagged = FALSE
  /\ forwarder = [pc |-> "none", held |-> NoFrame]
  /\ client_forward_stream = <<>>
  /\ group_read = <<>>
  /\ frames_sent = <<>>

\* two sessions of one device
SUsers == {"s1", "s2"}

SObjects == {"o1", "o2"}

\* the handler tasks of Part XIV
RemovalIds == {"h1", "h2", "h3"}

NoRemoval == [pc |-> "idle", from |-> "none", user |-> "none", todo |-> {}]

\* the CollabServer of Part XIV as constructed by CollabServer::new
ServerIdle ==
  /\ client_stream_by_user = {}
  /\ editing_collab_by_user = [u \in SUsers |-> {}]
  /\ cached_groups = {}
  /\ group_users = [o \in SObjects |-> {}]
  /\ removals = [t \in RemovalIds |-> NoRemoval]
  /\ subscribing = [u \in SUsers |-> "none"]
  /\ vlast = [op |-> "new", user |-> "none"]

NoRtCommand == [by |-> "none", object_id |-> "none"]

\* Part XV as constructed: the task waits for its first command
RtIdle ==
  /\ command_recv = <<>>
  /\ rt_task = [pc |-> "recv", cmd |-> NoRtCommand]
  /\ ret_reply = [r \in Requesters |-> "unsent"]

\* the parts after Part II as constructed
RestIdle == SubIdle /\ DbIdle /\ SnapIdle /\ LeaseIdle /\ RegIdle /\ ConnIdle /\ FrontIdle /\ TimeoutIdle /\ RunnerIdle /\ GenIdle /\ ForwardIdle /\ ServerIdle /\ RtIdle

NoMsg == [msg_id |-> -1, kind |-> "None", payload |-> {}]

\* Init > Update > Awareness
Priority(kind) ==
  CASE kind = "Init" -> 2
    [] kind = "Update" -> 1
    [] OTHER -> 0

\* an order of arrival only
HigherFifo(a, b) == a.msg_id < b.msg_id

\* heap order of the queue: priority first, then the smaller msg-id
Higher(a, b) ==
  \/ Priority(a.kind) > Priority(b.kind)
  \/ Priority(a.kind) = Priority(b.kind) /\ a.msg_id < b.msg_id

\* BinaryHeap::peek: the greatest item
Peek(q) == CHOOSE x \in q : \A y \in q \ {x} : Higher(x, y)

QueueItem(msg_id, kind) ==
  [msg_id |-> msg_id, kind |-> kind, state |-> "Pending",
   payload |-> {msg_id}, tx |-> "none", sent |-> FALSE, deferred |-> FALSE]

\* SinkQueue::push_msg
push_msg(q, msg_id, kind) == q \cup {QueueItem(msg_id, kind)}

is_init_msg(item) == item.kind = "Init"

can_merge(item) == item.kind = "Update"

\* QueueItem::merge: Err for an incompatible message or one that would exceed
\* the maximum payload size, otherwise the payloads are joined.
merge(s, p) ==
  IF p.kind # "Update" \/ Cardinality(s.payload \cup p.payload) > MaxPayload
    THEN [ok |-> FALSE, continue |-> FALSE, msg |-> s]
    ELSE [ok |-> TRUE,
          continue |-> Cardinality(s.payload \cup p.payload) < MaxPayload,
          msg |-> [s EXCEPT !.payload = s.payload \cup p.payload]]

\* a set_state that marks Done from any state
set_state_any(item, new_state) ==
  IF new_state = "Done"
    THEN [item EXCEPT !.state = "Done", !.tx = "none"]
    ELSE [item EXCEPT !.state = new_state]

\* QueueItem::set_state
set_state(item, new_state) ==
  IF new_state = "Done"
    THEN IF item.state = "Processing"
           THEN [item EXCEPT !.state = "Done", !.tx = "none"]
           ELSE item
    ELSE [item EXCEPT !.state = new_state]

\* the bool set_state returns
set_state_ret(item, new_state) == new_state = "Done" /\ item.state = "Processing"

\* DefaultMsgIdCounter::next: fetch_add(1) leaves the counter one higher
FetchAddStuck(c) == c
FetchAdd(c) == c + 1

\* the oneshot receiver after the senders held by the items in `dropped` are gone
RxAfterDrop(dropped) ==
  IF rx = "open" /\ \E it \in dropped : it.tx = "live" THEN "closed" ELSE rx

\* the oneshot receiver after `item` was marked Done
RxAfterDone(item) ==
  IF rx = "open" /\ item.tx = "live" /\ item.state = "Processing" THEN "fired" ELSE rx

\* the runner's receiver is dropped: a sender still stored in an item is dead
KillTx(q) == {[it EXCEPT !.tx = "none"] : it \in q}

\* history: the item with this msg-id was transmitted on the transport
MarkSent(q, msg_id) ==
  {IF it.msg_id = msg_id THEN [it EXCEPT !.sent = TRUE] ELSE it : it \in q}

\* history: the send of the item with this msg-id met a taken transport mutex
MarkDeferred(q, msg_id) ==
  {IF it.msg_id = msg_id THEN [it EXCEPT !.deferred = TRUE] ELSE it : it \in q}

Carried(q) == UNION {it.payload : it \in q}

SinkInit ==
  /\ message_queue = {}
  /\ msg_id_counter = 0
  /\ pause \in BOOLEAN
  /\ notified = TRUE
  /\ retry = FALSE
  /\ pc = "idle"
  /\ sending = NoMsg
  /\ rx = "none"
  /\ queue_locked = FALSE
  /\ sender_locked = FALSE
  /\ sink_state = "Init"
  /\ assigned = <<>>
  /\ last = [op |-> "new", id |-> -1]
  /\ RestIdle
  \* the server of Part II stays as constructed
  /\ level = [u \in Users |-> "write"]
  /\ connected = [u \in Users |-> FALSE]
  /\ sessions = [u \in Users |-> 0]
  /\ client_doc = [u \in Users |-> {}]
  /\ next_edit = [u \in Users |-> 0]
  /\ plan = [u \in Users |-> 0]
  /\ inbound = [u \in Users |-> <<>>]
  /\ group_stream = [u \in Users |-> <<>>]
  /\ gpc = Idle
  /\ doc = {}
  /\ log = <<>>
  /\ cli_sink = [u \in Users |-> <<>>]
  /\ seen = [u \in Users |-> {}]
  /\ rcvd = [u \in Users |-> <<>>]
  /\ allowed = {}
  /\ perm_ok = TRUE
  /\ glast = [op |-> "new", user |-> "none", answer |-> "none"]

(***************************************************************************)
(* Public operations.  Each takes the queue mutex with lock(), so it runs   *)
(* only while no other task holds it.                                       *)
(***************************************************************************)
queue_msg(kind) ==
  /\ ~queue_locked
  /\ msg_id_counter < MaxMsgs
  /\ message_queue' = push_msg(message_queue, msg_id_counter, kind)
  /\ msg_id_counter' = FetchAdd(msg_id_counter)
  /\ assigned' = Append(assigned, msg_id_counter)
  /\ notified' = TRUE
  /\ last' = [op |-> "queue_msg", id |-> msg_id_counter]
  /\ UNCHANGED <<groupVars, restVars, pause, retry, pc, sending, rx, queue_locked, sender_locked,
                 sink_state>>

can_queue_init_sync == message_queue = {} \/ ~is_init_msg(Peek(message_queue))

\* the test queue_init_sync makes itself: an init message is at the head
InitAtHeadNever(q) == FALSE
InitAtHead(q) == q # {} /\ is_init_msg(Peek(q))

queue_init_sync ==
  /\ ~queue_locked
  /\ IF InitAtHead(message_queue)
       THEN /\ last' = [op |-> "queue_init_sync_noop", id |-> -1]
            /\ UNCHANGED <<message_queue, msg_id_counter, assigned, notified, rx>>
       ELSE /\ msg_id_counter < MaxMsgs
            /\ message_queue' = push_msg({}, msg_id_counter, "Init")
            /\ rx' = RxAfterDrop(message_queue)
            /\ msg_id_counter' = FetchAdd(msg_id_counter)
            /\ assigned' = Append(assigned, msg_id_counter)
            /\ notified' = TRUE
            /\ last' = [op |-> "queue_init_sync", id |-> msg_id_counter]
  /\ UNCHANGED <<groupVars, restVars, pause, retry, pc, sending, queue_locked, sender_locked,
                 sink_state>>

clear ==
  /\ ~queue_locked
  /\ message_queue' = {}
  /\ rx' = RxAfterDrop(message_queue)
  /\ last' = [op |-> "clear", id |-> -1]
  /\ UNCHANGED <<groupVars, restVars, msg_id_counter, pause, notified, retry, pc, sending, queue_locked,
                 sender_locked, sink_state, assigned>>

\* what pause does to the queue
PauseClearsQueue(q) == {}
PauseQueue(q) == q

Pause ==
  /\ pause' = TRUE
  /\ sink_state' = "Pause"
  /\ message_queue' = PauseQueue(message_queue)
  /\ last' = [op |-> "pause", id |-> -1]
  /\ UNCHANGED <<groupVars, restVars, msg_id_counter, notified, retry, pc, sending, rx,
                 queue_locked, sender_locked, assigned>>

Resume ==
  /\ pause' = FALSE
  /\ notified' = TRUE
  /\ last' = [op |-> "resume", id |-> -1]
  /\ UNCHANGED <<groupVars, restVars, message_queue, msg_id_counter, retry, pc, sending, rx,
                 queue_locked, sender_locked, sink_state, assigned>>

\* the test of ack_msg that the ack is for the head
AckMatchesAny(head, msg_id) == TRUE
AckMatches(head, msg_id) == head.msg_id = msg_id

\* msg_id = NoMsgId stands for a server message that carries no msg-id
NoMsgId == -1

ack_msg(msg_id) ==
  /\ ~queue_locked
  /\ IF msg_id = NoMsgId
       THEN /\ last' = [op |-> "ack_no_id", id |-> msg_id]
            /\ UNCHANGED <<message_queue, rx, notified>>
     ELSE IF message_queue = {}
       THEN /\ last' = [op |-> "ack_empty", id |-> msg_id]
            /\ UNCHANGED <<message_queue, rx, notified>>
       ELSE LET head == Peek(message_queue) IN
            IF ~AckMatches(head, msg_id)
              THEN /\ last' = [op |-> "ack_mismatch", id |-> msg_id]
                   /\ UNCHANGED <<message_queue, rx, notified>>
              ELSE /\ message_queue' =
                        (message_queue \ {head}) \cup {set_state(head, "Done")}
                   /\ rx' = RxAfterDone(head)
                   /\ IF set_state_ret(head, "Done")
                        THEN /\ notified' = TRUE
                             /\ last' = [op |-> "ack_done", id |-> msg_id]
                        ELSE /\ UNCHANGED notified
                             /\ last' = [op |-> "ack_not_processing", id |-> msg_id]
  /\ UNCHANGED <<groupVars, restVars, msg_id_counter, pause, retry, pc, sending, queue_locked,
                 sender_locked, sink_state, assigned>>


(***************************************************************************)
(* The runner: CollabSinkRunner::run, process_next_msg and                  *)
(* send_msg_immediately.  The runner is one task; it is suspended at        *)
(*   idle      notifier.changed().await                                     *)
(*   sending   sender.send(collab_msg).await                                *)
(*   wait_ack  timeout(timeout_duration, rx).await                          *)
(***************************************************************************)
RECURSIVE MergeLoop(_, _)
\* the while-let loop that merges the following messages into sending_msg
MergeLoop(s, q) ==
  IF q = {} THEN [msg |-> s, queue |-> q]
  ELSE LET p == Peek(q)
           r == merge(s, p)
       IN IF r.ok
            THEN IF r.continue
                   THEN MergeLoop(r.msg, q \ {p})
                   ELSE [msg |-> r.msg, queue |-> q \ {p}]
            ELSE [msg |-> s, queue |-> q]

\* what the first block of send_msg_immediately leaves for a sendable head
Picked(q) ==
  LET head == Peek(q)
      m == IF can_merge(head)
             THEN MergeLoop(head, q \ {head})
             ELSE [msg |-> head, queue |-> q \ {head}]
      item == [set_state(m.msg, "Processing") EXCEPT !.tx = "live"]
  IN [item |-> item, queue |-> m.queue \cup {item}]

Woken == pc = "idle" /\ notified

RunnerPaused ==
  /\ Woken
  /\ pause
  /\ notified' = FALSE
  /\ last' = [op |-> "wake_paused", id |-> -1]
  /\ UNCHANGED <<groupVars, restVars, message_queue, msg_id_counter, pause, retry, pc, sending, rx,
                 queue_locked, sender_locked, sink_state, assigned>>

RunnerQueueBusy ==
  /\ Woken
  /\ ~pause
  /\ queue_locked
  /\ notified' = FALSE
  /\ retry' = TRUE
  /\ last' = [op |-> "wake_queue_busy", id |-> -1]
  /\ UNCHANGED <<groupVars, restVars, message_queue, msg_id_counter, pause, pc, sending, rx,
                 queue_locked, sender_locked, sink_state, assigned>>

RunnerQueueEmpty ==
  /\ Woken
  /\ ~pause
  /\ ~queue_locked
  /\ message_queue = {}
  /\ notified' = FALSE
  /\ last' = [op |-> "wake_empty", id |-> -1]
  /\ UNCHANGED <<groupVars, restVars, message_queue, msg_id_counter, pause, retry, pc, sending, rx,
                 queue_locked, sender_locked, sink_state, assigned>>

\* the popped head is Done: it is gone, and the runner is woken again
RunnerPopDone ==
  /\ Woken
  /\ ~pause
  /\ ~queue_locked
  /\ message_queue # {}
  /\ Peek(message_queue).state = "Done"
  /\ message_queue' = message_queue \ {Peek(message_queue)}
  /\ notified' = TRUE
  /\ last' = [op |-> "wake_pop_done", id |-> Peek(message_queue).msg_id]
  /\ UNCHANGED <<groupVars, restVars, msg_id_counter, pause, retry, pc, sending, rx, queue_locked,
                 sender_locked, sink_state, assigned>>

\* the popped head is Processing: return None, the popped item is not pushed back
RunnerPopProcessing ==
  /\ Woken
  /\ ~pause
  /\ ~queue_locked
  /\ message_queue # {}
  /\ Peek(message_queue).state = "Processing"
  /\ message_queue' = message_queue \ {Peek(message_queue)}
  /\ notified' = FALSE
  /\ last' = [op |-> "wake_pop_processing", id |-> Peek(message_queue).msg_id]
  /\ UNCHANGED <<groupVars, restVars, msg_id_counter, pause, retry, pc, sending, rx, queue_locked,
                 sender_locked, sink_state, assigned>>

Sendable ==
  /\ Woken
  /\ ~pause
  /\ ~queue_locked
  /\ message_queue # {}
  /\ Peek(message_queue).state \in {"Pending", "Timeout"}

\* the head is marked Processing, but the transport mutex is taken
RunnerSenderBusy ==
  /\ Sendable
  /\ sender_locked
  /\ message_queue' = KillTx(MarkDeferred(Picked(message_queue).queue,
                                           Picked(message_queue).item.msg_id))
  /\ sink_state' = "Syncing"
  /\ notified' = FALSE
  /\ retry' = TRUE
  /\ last' = [op |-> "wake_sender_busy", id |-> Picked(message_queue).item.msg_id]
  /\ UNCHANGED <<groupVars, restVars, msg_id_counter, pause, pc, sending, rx, queue_locked,
                 sender_locked, assigned>>

RunnerStartSend ==
  /\ Sendable
  /\ ~sender_locked
  /\ message_queue' = Picked(message_queue).queue
  /\ sending' = [msg_id |-> Picked(message_queue).item.msg_id,
                 kind |-> Picked(message_queue).item.kind,
                 payload |-> Picked(message_queue).item.payload]
  /\ rx' = "open"
  /\ pc' = "sending"
  /\ sink_state' = "Syncing"
  /\ notified' = FALSE
  /\ last' = [op |-> "start_send", id |-> Picked(message_queue).item.msg_id]
  /\ UNCHANGED <<groupVars, restVars, msg_id_counter, pause, retry, queue_locked, sender_locked, assigned>>

SendOk ==
  /\ pc = "sending"
  /\ pc' = "wait_ack"
  /\ message_queue' = MarkSent(message_queue, sending.msg_id)
  /\ last' = [op |-> "send_ok", id |-> sending.msg_id]
  /\ UNCHANGED <<groupVars, restVars, msg_id_counter, pause, notified, retry, sending, rx,
                 queue_locked, sender_locked, sink_state, assigned>>

\* sender.send failed: return None
SendErr ==
  /\ pc = "sending"
  /\ pc' = "idle"
  /\ rx' = "none"
  /\ sending' = NoMsg
  /\ message_queue' = KillTx(message_queue)
  /\ last' = [op |-> "send_err", id |-> sending.msg_id]
  /\ UNCHANGED <<groupVars, restVars, msg_id_counter, pause, notified, retry, queue_locked,
                 sender_locked, sink_state, assigned>>

\* rx resolved Ok: pop the head of the queue
AckReceived ==
  /\ pc = "wait_ack"
  /\ rx = "fired"
  /\ IF queue_locked
       THEN UNCHANGED <<message_queue, sink_state>>
       ELSE /\ message_queue' =
                 IF message_queue = {} THEN {}
                 ELSE KillTx(message_queue \ {Peek(message_queue)})
            /\ sink_state' =
                 IF message_queue' = {} THEN "Finished" ELSE sink_state
  /\ pc' = "idle"
  /\ rx' = "none"
  /\ sending' = NoMsg
  /\ notified' = TRUE
  /\ last' = [op |-> "ack_received",
              id |-> IF queue_locked \/ message_queue = {} THEN -1
                     ELSE Peek(message_queue).msg_id]
  /\ UNCHANGED <<groupVars, restVars, msg_id_counter, pause, retry, queue_locked, sender_locked, assigned>>

\* rx resolved Err: the item holding the sender was removed from the queue
AckChannelClosed ==
  /\ pc = "wait_ack"
  /\ rx = "closed"
  /\ pc' = "idle"
  /\ rx' = "none"
  /\ sending' = NoMsg
  /\ notified' = TRUE
  /\ last' = [op |-> "ack_channel_closed", id |-> sending.msg_id]
  /\ UNCHANGED <<groupVars, restVars, message_queue, msg_id_counter, pause, retry, queue_locked,
                 sender_locked, sink_state, assigned>>

\* the timeout elapsed first: the head of the queue is marked Timeout
AckTimeout ==
  /\ pc = "wait_ack"
  /\ rx = "open"
  /\ ~queue_locked
  /\ message_queue' =
       IF message_queue = {} THEN {}
       ELSE KillTx((message_queue \ {Peek(message_queue)})
                    \cup {set_state(Peek(message_queue), "Timeout")})
  /\ pc' = "idle"
  /\ rx' = "none"
  /\ sending' = NoMsg
  /\ notified' = TRUE
  /\ last' = [op |-> "ack_timeout", id |-> sending.msg_id]
  /\ UNCHANGED <<groupVars, restVars, msg_id_counter, pause, retry, queue_locked, sender_locked,
                 sink_state, assigned>>

\* retry_later: after 100 ms the notifier is sent again
RetryFires ==
  /\ retry
  /\ retry' = FALSE
  /\ notified' = TRUE
  /\ last' = [op |-> "retry_fires", id |-> -1]
  /\ UNCHANGED <<groupVars, restVars, message_queue, msg_id_counter, pause, pc, sending, rx,
                 queue_locked, sender_locked, sink_state, assigned>>

(***************************************************************************)
(* Other tasks taking and releasing the two mutexes.                        *)
(***************************************************************************)
LockQueue ==
  /\ ~queue_locked
  /\ queue_locked' = TRUE
  /\ last' = [op |-> "lock", id |-> -1]
  /\ UNCHANGED <<groupVars, restVars, message_queue, msg_id_counter, pause, notified, retry, pc,
                 sending, rx, sender_locked, sink_state, assigned>>

UnlockQueue ==
  /\ queue_locked
  /\ queue_locked' = FALSE
  /\ last' = [op |-> "lock", id |-> -1]
  /\ UNCHANGED <<groupVars, restVars, message_queue, msg_id_counter, pause, notified, retry, pc,
                 sending, rx, sender_locked, sink_state, assigned>>

LockSender ==
  /\ ~sender_locked
  /\ pc # "sending"
  /\ sender_locked' = TRUE
  /\ last' = [op |-> "lock", id |-> -1]
  /\ UNCHANGED <<groupVars, restVars, message_queue, msg_id_counter, pause, notified, retry, pc,
                 sending, rx, queue_locked, sink_state, assigned>>

UnlockSender ==
  /\ sender_locked
  /\ sender_locked' = FALSE
  /\ last' = [op |-> "lock", id |-> -1]
  /\ UNCHANGED <<groupVars, restVars, message_queue, msg_id_counter, pause, notified, retry, pc,
                 sending, rx, queue_locked, sink_state, assigned>>

(***************************************************************************)
(* Part II, definitions.  One object "O" with its group, two users; "X" is  *)
(* another object of the same connection, whose frames reach the forwarder  *)
(* of "O" through the connection's broadcast channel stream_tx.             *)
(***************************************************************************)
Objects == {"O", "X"}

\* the owner of the object has full access; the access level of a member changes
Owner == "u1"

Levels == {"none", "read", "write"}

UserNo(u) == IF u = "u1" THEN 1 ELSE 2

\* the k-th update made by user u
UpdateOf(u, k) == 10 * UserNo(u) + k

OwnUpdates(u) == {UpdateOf(u, k) : k \in 1 .. MaxEdits + 1}

\* the edits the two clients are going to make: both edit, or the member alone
EditPlans ==
  {[u \in Users |-> MaxEdits],
   [u \in Users |-> IF u = Owner THEN 0 ELSE MaxEdits + 1]}

Range(seq) == {seq[i] : i \in DOMAIN seq}

LogSet == Range(log)

\* the access controller's answers, from the access level
can_send_collab_update(u) == level[u] = "write"
can_receive_collab_update(u) == level[u] \in {"read", "write"}

\* an answer of the access controller: Ok(true), Ok(false) or Err; "none" when
\* the filter returns before it asks
Answers(asked, granted) ==
  IF asked THEN {IF granted THEN "yes" ELSE "no", "err"} ELSE {"none"}

AnswerSet == {"yes", "no", "err", "none"}

\* the sink filter of make_channel: the message must be of this object, and
\* can_receive_collab_update must answer Ok(true)
sink_filter_inverted(object_id, msg, answer) ==
  IF msg.object # object_id THEN FALSE ELSE answer # "yes"
sink_filter_open(object_id, msg, answer) ==
  IF msg.object # object_id THEN FALSE ELSE answer # "no"
sink_filter(object_id, msg, answer) ==
  IF msg.object # object_id THEN FALSE ELSE answer = "yes"

\* the stream filter of make_channel: the message must be of this object; an
\* init sync passes; otherwise can_send_collab_update must answer Ok(true)
stream_filter_checked(object_id, msg, answer) ==
  IF msg.object # object_id THEN FALSE ELSE answer = "yes"
stream_filter_open(object_id, msg, answer) ==
  IF msg.object # object_id THEN FALSE
  ELSE IF msg.kind = "init" THEN TRUE
  ELSE answer # "no"
stream_filter(object_id, msg, answer) ==
  IF msg.object # object_id THEN FALSE
  ELSE IF msg.kind = "init" THEN TRUE
  ELSE answer = "yes"

\* the server after CollabServer::new; the sink of Part I stays as constructed
GroupInit ==
  /\ message_queue = {}
  /\ msg_id_counter = 0
  /\ pause = FALSE
  /\ notified = TRUE
  /\ retry = FALSE
  /\ pc = "idle"
  /\ sending = NoMsg
  /\ rx = "none"
  /\ queue_locked = FALSE
  /\ sender_locked = FALSE
  /\ sink_state = "Init"
  /\ assigned = <<>>
  /\ last = [op |-> "new", id |-> -1]
  /\ level \in {f \in [Users -> Levels] : f[Owner] = "write"}
  /\ connected = [u \in Users |-> FALSE]
  /\ sessions = [u \in Users |-> 0]
  /\ client_doc = [u \in Users |-> {}]
  /\ next_edit = [u \in Users |-> 0]
  /\ plan \in EditPlans
  /\ inbound = [u \in Users |-> <<>>]
  /\ group_stream = [u \in Users |-> <<>>]
  /\ gpc = Idle
  /\ doc = {}
  /\ log = <<>>
  /\ cli_sink = [u \in Users |-> <<>>]
  /\ seen = [u \in Users |-> {}]
  /\ rcvd = [u \in Users |-> <<>>]
  /\ allowed = {}
  /\ perm_ok = \A u \in Users : level[u] = "write"
  /\ RestIdle
  /\ glast = [op |-> "new", user |-> "none", answer |-> "none"]

Frame(kind, object, payload) == [kind |-> kind, object |-> object, payload |-> payload]

ServerMsg(kind, payload, sv) ==
  [kind |-> kind, object |-> "O", payload |-> payload, sv |-> sv]

\* the access controller is told a new access level of a user
SetLevel(u, l) ==
  /\ u # Owner
  /\ level[u] # l
  /\ level' = [level EXCEPT ![u] = l]
  /\ perm_ok' = (perm_ok /\ l = "write")
  /\ glast' = [op |-> "set_level", user |-> u, answer |-> "none"]
  /\ UNCHANGED <<sinkVars, restVars, plan, sessions, connected, client_doc, next_edit, inbound, group_stream,
                 gpc, doc, log, cli_sink, seen, rcvd, allowed>>

\* Connect, then the first client message: the init sync of the object, which
\* makes SubscribeGroup subscribe the user to the group
Connect(u) ==
  /\ ~connected[u]
  /\ sessions[u] < MaxSessions
  /\ sessions' = [sessions EXCEPT ![u] = @ + 1]
  /\ connected' = [connected EXCEPT ![u] = TRUE]
  /\ inbound' = [inbound EXCEPT ![u] = <<Frame("init", "O", client_doc[u])>>]
  /\ glast' = [op |-> "connect", user |-> u, answer |-> "none"]
  /\ UNCHANGED <<sinkVars, restVars, plan, level, client_doc, next_edit, group_stream, gpc, doc,
                 log, cli_sink, seen, rcvd, allowed, perm_ok>>

\* Disconnect: remove_user drops the client stream and the subscriptions
Disconnect(u) ==
  /\ connected[u]
  /\ connected' = [connected EXCEPT ![u] = FALSE]
  /\ inbound' = [inbound EXCEPT ![u] = <<>>]
  /\ group_stream' = [group_stream EXCEPT ![u] = <<>>]
  /\ cli_sink' = [cli_sink EXCEPT ![u] = <<>>]
  /\ glast' = [op |-> "disconnect", user |-> u, answer |-> "none"]
  /\ UNCHANGED <<sinkVars, restVars, plan, sessions, level, client_doc, next_edit, gpc, doc, log, seen, rcvd,
                 allowed, perm_ok>>

\* a client edits its document; when it is connected the update is sent
ClientEdit(u) ==
  /\ next_edit[u] < plan[u]
  /\ connected[u] => Len(inbound[u]) < MaxChan
  /\ LET x == UpdateOf(u, next_edit[u] + 1) IN
       /\ client_doc' = [client_doc EXCEPT ![u] = @ \cup {x}]
       /\ inbound' = IF connected[u]
                       THEN [inbound EXCEPT ![u] = Append(@, Frame("update", "O", {x}))]
                       ELSE inbound
  /\ next_edit' = [next_edit EXCEPT ![u] = @ + 1]
  /\ glast' = [op |-> "edit", user |-> u, answer |-> "none"]
  /\ UNCHANGED <<sinkVars, restVars, plan, sessions, level, connected, group_stream, gpc, doc, log, cli_sink,
                 seen, rcvd, allowed, perm_ok>>

InFlight(u) ==
  UNION {f.payload : f \in {g \in Range(inbound[u]) \cup Range(group_stream[u]) :
                              g.kind = "update"}}
    \cup (IF gpc.user = u THEN gpc.payload ELSE {})

\* the client's outbound sink sends an update again that was not acknowledged
ClientResend(u) ==
  /\ connected[u]
  /\ Len(inbound[u]) < MaxChan
  /\ \E x \in (client_doc[u] \cap OwnUpdates(u)) \ (LogSet \cup InFlight(u)) :
       inbound' = [inbound EXCEPT ![u] = Append(@, Frame("update", "O", {x}))]
  /\ glast' = [op |-> "resend", user |-> u, answer |-> "none"]
  /\ UNCHANGED <<sinkVars, restVars, plan, sessions, level, connected, client_doc, next_edit, group_stream,
                 gpc, doc, log, cli_sink, seen, rcvd, allowed, perm_ok>>

\* a frame of another object of the same connection reaches stream_rx of the
\* forwarder of "O" and goes through its stream filter (the queue is empty)
ClientSendOther(u, kind, answer) ==
  /\ connected[u]
  /\ inbound[u] = <<>>
  /\ Len(group_stream[u]) < MaxChan
  /\ answer \in Answers(FALSE, can_send_collab_update(u))
  /\ group_stream' = IF stream_filter("O", Frame(kind, "X", {}), answer)
                        THEN [group_stream EXCEPT ![u] = Append(@, Frame(kind, "X", {}))]
                        ELSE group_stream
  /\ glast' = [op |-> "send_other", user |-> u, answer |-> answer]
  /\ UNCHANGED <<sinkVars, restVars, plan, sessions, level, connected, client_doc, next_edit, inbound,
                 gpc, doc, log, cli_sink, seen, rcvd, allowed, perm_ok>>

\* client_channel, second task: one frame of stream_rx goes through the stream
\* filter and, when it passes, into the stream of the group
StreamForward(u, answer) ==
  /\ inbound[u] # <<>>
  /\ Len(group_stream[u]) < MaxChan
  /\ answer \in Answers(Head(inbound[u]).object = "O" /\ Head(inbound[u]).kind # "init",
                        can_send_collab_update(u))
  /\ perm_ok' = (perm_ok /\ answer \in {"yes", "none"})
  /\ LET msg == Head(inbound[u]) IN
       /\ inbound' = [inbound EXCEPT ![u] = Tail(@)]
       /\ IF stream_filter("O", msg, answer)
            THEN /\ group_stream' = [group_stream EXCEPT ![u] = Append(@, msg)]
                 /\ allowed' = IF msg.kind = "update" /\ answer = "yes"
                                 THEN allowed \cup msg.payload
                                 ELSE allowed
                 /\ glast' = [op |-> "stream_pass", user |-> u, answer |-> answer]
            ELSE /\ UNCHANGED <<group_stream, allowed>>
                 /\ glast' = [op |-> "stream_drop", user |-> u, answer |-> answer]
  /\ UNCHANGED <<sinkVars, restVars, plan, sessions, level, connected, client_doc, next_edit, gpc, doc, log,
                 cli_sink, seen, rcvd>>

\* the group answers an init sync with the updates the client does not have
GroupInitSync(u) ==
  /\ gpc.stage = "idle"
  /\ group_stream[u] # <<>>
  /\ Head(group_stream[u]).kind = "init"
  /\ group_stream' = [group_stream EXCEPT ![u] = Tail(@)]
  /\ cli_sink' = [cli_sink EXCEPT ![u] =
                    Append(@, ServerMsg("init_resp",
                                        doc \ Head(group_stream[u]).payload, doc))]
  /\ glast' = [op |-> "init_sync", user |-> u, answer |-> "none"]
  /\ UNCHANGED <<sinkVars, restVars, plan, sessions, level, connected, client_doc, next_edit, inbound, gpc,
                 doc, log, seen, rcvd, allowed, perm_ok>>

\* the group applies an update to its document
GroupApply(u) ==
  /\ gpc.stage = "idle"
  /\ group_stream[u] # <<>>
  /\ Head(group_stream[u]).kind = "update"
  /\ group_stream' = [group_stream EXCEPT ![u] = Tail(@)]
  /\ doc' = doc \cup Head(group_stream[u]).payload
  /\ gpc' = [stage |-> "append", user |-> u, payload |-> Head(group_stream[u]).payload]
  /\ glast' = [op |-> "apply", user |-> u, answer |-> "none"]
  /\ UNCHANGED <<sinkVars, restVars, plan, sessions, level, connected, client_doc, next_edit, inbound, log,
                 cli_sink, seen, rcvd, allowed, perm_ok>>

AppendNew(l, payload) ==
  IF payload \subseteq Range(l) THEN l
  ELSE l \o <<CHOOSE x \in payload \ Range(l) : TRUE>>

\* the append to the durable log completed
AppendOk ==
  /\ gpc.stage = "append"
  /\ Cardinality(gpc.payload) = 1
  /\ log' = AppendNew(log, gpc.payload)
  /\ gpc' = [gpc EXCEPT !.stage = "broadcast"]
  /\ glast' = [op |-> "append_ok", user |-> gpc.user, answer |-> "none"]
  /\ UNCHANGED <<sinkVars, restVars, plan, sessions, level, connected, client_doc, next_edit, inbound,
                 group_stream, doc, cli_sink, seen, rcvd, allowed, perm_ok>>

\* the append failed: the error goes to the caller, nothing is broadcast
AppendFail ==
  /\ gpc.stage = "append"
  /\ gpc' = Idle
  /\ glast' = [op |-> "append_fail", user |-> gpc.user, answer |-> "none"]
  /\ UNCHANGED <<sinkVars, restVars, plan, sessions, level, connected, client_doc, next_edit, inbound,
                 group_stream, doc, log, cli_sink, seen, rcvd, allowed, perm_ok>>

\* the stage at which the group fans an update out
BroadcastReadyEarly(stage) == stage \in {"append", "broadcast"}
BroadcastReady(stage) == stage = "broadcast"

\* fan out to every subscriber but the origin
Broadcast ==
  /\ BroadcastReady(gpc.stage)
  /\ cli_sink' = [v \in Users |->
                    IF connected[v] /\ v # gpc.user
                      THEN Append(cli_sink[v], ServerMsg("bcast", gpc.payload, {}))
                      ELSE cli_sink[v]]
  /\ gpc' = Idle
  /\ glast' = [op |-> "broadcast", user |-> gpc.user, answer |-> "none"]
  /\ UNCHANGED <<sinkVars, restVars, plan, sessions, level, connected, client_doc, next_edit, inbound,
                 group_stream, doc, log, seen, rcvd, allowed, perm_ok>>

\* the newest message of the channel is taken first
rx_recv_newest(q) == [msg |-> q[Len(q)], rest |-> SubSeq(q, 1, Len(q) - 1)]

\* rx.recv() of the unbounded channel: the oldest message
rx_recv(q) == [msg |-> Head(q), rest |-> Tail(q)]

\* client_channel, first task: one message of the per-object sink goes through the
\* sink filter and, when it passes, to the websocket of the client; the client
\* integrates it, and answers an init sync with the updates the server lacks
SinkForward(u, answer) ==
  /\ cli_sink[u] # <<>>
  /\ answer \in Answers(rx_recv(cli_sink[u]).msg.object = "O", can_receive_collab_update(u))
  /\ perm_ok' = (perm_ok /\ answer \in {"yes", "none"})
  /\ LET msg == rx_recv(cli_sink[u]).msg
         missing == (client_doc[u] \cup msg.payload) \ msg.sv
     IN
       /\ cli_sink' = [cli_sink EXCEPT ![u] = rx_recv(@).rest]
       /\ IF sink_filter("O", msg, answer)
            THEN /\ client_doc' = [client_doc EXCEPT ![u] = @ \cup msg.payload]
                 /\ seen' = [seen EXCEPT ![u] = @ \cup msg.payload]
                 /\ rcvd' = IF msg.kind = "bcast"
                              THEN [rcvd EXCEPT ![u] = AppendNew(@, msg.payload)]
                              ELSE rcvd
                 /\ inbound' =
                      IF msg.kind = "init_resp" /\ missing # {}
                        THEN [inbound EXCEPT ![u] =
                                @ \o [i \in 1 .. 1 |-> Frame("update", "O", missing)]]
                        ELSE inbound
                 /\ glast' = [op |-> "sink_pass", user |-> u, answer |-> answer]
            ELSE /\ UNCHANGED <<client_doc, seen, rcvd, inbound>>
                 /\ glast' = [op |-> "sink_drop", user |-> u, answer |-> answer]
  /\ UNCHANGED <<sinkVars, restVars, plan, sessions, level, connected, next_edit, group_stream, gpc, doc, log,
                 allowed>>

GroupNext ==
  \/ \E u \in Users, l \in Levels : SetLevel(u, l)
  \/ \E u \in Users : Connect(u)
  \/ \E u \in Users : Disconnect(u)
  \/ \E u \in Users : ClientEdit(u)
  \/ \E u \in Users : ClientResend(u)
  \/ \E u \in Users, kind \in {"init", "update"}, answer \in AnswerSet :
       ClientSendOther(u, kind, answer)
  \/ \E u \in Users, answer \in AnswerSet : StreamForward(u, answer)
  \/ \E u \in Users : GroupInitSync(u)
  \/ \E u \in Users : GroupApply(u)
  \/ AppendOk
  \/ AppendFail
  \/ Broadcast
  \/ \E u \in Users, answer \in AnswerSet : SinkForward(u, answer)

GroupSpec == GroupInit /\ [][GroupNext]_vars

\* the sink with a transport of its own: nothing else takes the transport mutex
SinkOwnTransportNext ==
  \/ \E kind \in {"Update", "Awareness"} : queue_msg(kind)
  \/ queue_init_sync
  \/ clear
  \/ Pause
  \/ Resume
  \/ \E msg_id \in (0 .. MaxMsgs - 1) \cup {NoMsgId} : ack_msg(msg_id)
  \/ RunnerPaused
  \/ RunnerQueueBusy
  \/ RunnerQueueEmpty
  \/ RunnerPopDone
  \/ RunnerPopProcessing
  \/ RunnerStartSend
  \/ SendOk
  \/ SendErr
  \/ AckReceived
  \/ AckChannelClosed
  \/ AckTimeout
  \/ RetryFires
  \/ LockQueue
  \/ UnlockQueue

\* the sink on a transport shared with other sinks
SinkNext ==
  \/ SinkOwnTransportNext
  \/ RunnerSenderBusy
  \/ LockSender
  \/ UnlockSender

SinkSpec == SinkInit /\ [][SinkNext]_vars

SinkOwnTransportSpec == SinkInit /\ [][SinkOwnTransportNext]_vars

(***************************************************************************)
(* Properties of the outbound sink.                                         *)
(***************************************************************************)
ProcessingItems == {it \in message_queue : it.state = "Processing"}

MsgIds(q) == {it.msg_id : it \in q}

\* C1: at every instant at most one queued message of a sink is in state
\* Processing.
C1_AtMostOneProcessing == Cardinality(ProcessingItems) <= 1

\* C2: no step other than clear or a displacing queue_init_sync removes from the
\* queue the payload of a message that has not been acknowledged (marked Done);
\* a payload merged into the message being sent counts as still queued.
C2_NoSilentDrop ==
  [][last'.op \notin {"clear", "queue_init_sync"}
       => \A it \in message_queue :
            it.state # "Done" => it.payload \subseteq Carried(message_queue')]_vars

\* C7: the msg-ids a sink hands out are strictly increasing in the order they
\* are handed out, and the counter stays above every id handed out, whatever
\* clear, pause, resume, acknowledge and the timeouts do in between.
C7_MsgIdsStrictlyIncreasing ==
  /\ \A i, j \in 1 .. Len(assigned) : i < j => assigned[i] < assigned[j]
  /\ \A i \in 1 .. Len(assigned) : assigned[i] < msg_id_counter
  /\ \A it \in message_queue : it.payload \subseteq {assigned[i] : i \in 1 .. Len(assigned)}

\* C7 witness: an Init got its id after two other ids, with a clear in between
C7_Witness ==
  /\ Len(assigned) = 3
  /\ last.op = "queue_init_sync"
  /\ message_queue = {QueueItem(2, "Init")}

\* C8: a displacing queue_init_sync leaves exactly the new Init in the queue,
\* and that Init stays queued until the runner picks it: the next message the
\* runner picks is the Init, and nothing but clear removes it before.
C8_InitDisplacesQueue ==
  [][/\ last'.op = "queue_init_sync"
          => message_queue' = {QueueItem(last'.id, "Init")}
     /\ \A it \in message_queue :
          (is_init_msg(it) /\ it.state = "Pending" /\ last'.op # "clear")
            => /\ it.msg_id \in MsgIds(message_queue')
               /\ last'.op = "start_send" => last'.id = it.msg_id]_vars

\* C9: when the wait for the ack of a sent message times out, that message is
\* in the queue with state Timeout.
C9_TimeoutKeepsMessage ==
  [][last'.op = "ack_timeout"
       => \E it \in message_queue' :
            it.msg_id = last'.id /\ it.state = "Timeout"]_vars

AckOps == {"ack_empty", "ack_mismatch", "ack_done", "ack_not_processing"}

\* the ack is for an unknown or an already acknowledged msg-id
StaleAck(q, msg_id) ==
  \/ q = {}
  \/ Peek(q).msg_id # msg_id
  \/ Peek(q).state = "Done"

\* C10: an ack on an empty queue, an ack whose msg-id is not the head's, and a
\* second ack for a head already Done change neither the queue nor any message
\* state, wake nobody and leave the runner where it is.
C10_StaleAckIsNoop ==
  [][(last'.op \in AckOps /\ StaleAck(message_queue, last'.id))
       => /\ message_queue' = message_queue
          /\ rx' = rx
          /\ notified' = notified
          /\ pc' = pc
          /\ sending' = sending]_vars

\* C10 witness: an ack for another msg-id arrived while the head is in flight
C10_Witness ==
  /\ last.op = "ack_mismatch"
  /\ pc = "wait_ack"
  /\ rx = "open"
  /\ \E it \in message_queue : it.state = "Processing" /\ it.msg_id # last.id


(***************************************************************************)
(* Part II, properties.                                                     *)
(***************************************************************************)
\* the broadcast messages a step wrote to the sink of user v
NewBroadcasts(v) ==
  {cli_sink'[v][i] : i \in {j \in DOMAIN cli_sink'[v] :
                              /\ j > Len(cli_sink[v])
                              /\ cli_sink'[v][j].kind = "bcast"}}

Made(u) == {UpdateOf(u, k) : k \in 1 .. next_edit[u]}

\* both users are connected, nothing is in flight, every update a client sent
\* was accepted and appended (its sink drained)
Drained ==
  /\ gpc = Idle
  /\ \A u \in Users :
       /\ connected[u]
       /\ inbound[u] = <<>>
       /\ group_stream[u] = <<>>
       /\ cli_sink[u] = <<>>
       /\ Made(u) \subseteq LogSet

C5_WritePermissionPerMessage ==
  /\ [](/\ doc \subseteq allowed
        /\ \A v \in Users : seen[v] \subseteq allowed
        /\ \A v \in Users : \A m \in Range(cli_sink[v]) : m.payload \subseteq allowed)
  /\ [][doc \subseteq doc']_vars

\* the member wrote one update with write access, was downgraded to read-only,
\* and its next update was dropped by the stream filter
C5_Witness ==
  /\ glast = [op |-> "stream_drop", user |-> "u2", answer |-> "no"]
  /\ level["u2"] = "read"
  /\ UpdateOf("u2", 1) \in doc
  /\ UpdateOf("u2", 2) \in client_doc["u2"] \ (doc \cup allowed)
  /\ inbound["u2"] = <<>>

\* C6: receive permission per outbound message.  A message of a subscriber's
\* sink reaches the client only when can-receive answers true at that moment;
\* otherwise the message is removed and the client's document does not change.
C6_ReceivePermissionPerMessage ==
  [][/\ glast'.op = "sink_pass" =>
          /\ glast'.answer = "yes"
          /\ can_receive_collab_update(glast'.user)
     /\ (glast'.op \in {"sink_pass", "sink_drop"} /\ glast'.answer # "yes") =>
          /\ client_doc' = client_doc
          /\ seen' = seen
          /\ inbound' = inbound
          /\ cli_sink'[glast'.user] = Tail(cli_sink[glast'.user])]_vars

\* a broadcast of the owner's update was dropped at the member's sink, and the
\* member does not have the update
C6_Witness ==
  /\ glast = [op |-> "sink_drop", user |-> "u2", answer |-> "no"]
  /\ level["u2"] = "none"
  /\ UpdateOf("u1", 1) \in LogSet
  /\ UpdateOf("u1", 1) \notin client_doc["u2"]
  /\ cli_sink["u2"] = <<>>


(***************************************************************************)
(* The sink of Part I and the server of Part II as constructed, for the     *)
(* specifications of the later parts.                                       *)
(***************************************************************************)
SinkIdle ==
  /\ message_queue = {}
  /\ msg_id_counter = 0
  /\ pause = FALSE
  /\ notified = TRUE
  /\ retry = FALSE
  /\ pc = "idle"
  /\ sending = NoMsg
  /\ rx = "none"
  /\ queue_locked = FALSE
  /\ sender_locked = FALSE
  /\ sink_state = "Init"
  /\ assigned = <<>>
  /\ last = [op |-> "new", id |-> -1]

GroupIdle ==
  /\ level = [u \in Users |-> "write"]
  /\ connected = [u \in Users |-> FALSE]
  /\ sessions = [u \in Users |-> 0]
  /\ client_doc = [u \in Users |-> {}]
  /\ next_edit = [u \in Users |-> 0]
  /\ plan = [u \in Users |-> 0]
  /\ inbound = [u \in Users |-> <<>>]
  /\ group_stream = [u \in Users |-> <<>>]
  /\ gpc = Idle
  /\ doc = {}
  /\ log = <<>>
  /\ cli_sink = [u \in Users |-> <<>>]
  /\ seen = [u \in Users |-> {}]
  /\ rcvd = [u \in Users |-> <<>>]
  /\ allowed = {}
  /\ perm_ok = TRUE
  /\ glast = [op |-> "new", user |-> "none", answer |-> "none"]

(***************************************************************************)
(* Part III.  CollabGroup: subscribe, unsubscribe, remove_user.             *)
(***************************************************************************)
\* RealtimeUser::user_device
user_device(u) == IF u.device_id = "a" THEN "1:a" ELSE "1:b"

\* every part as constructed: the initial state of the parts that follow
ServerInit ==
  /\ SinkIdle
  /\ GroupIdle
  /\ RestIdle

\* the subscriptions the map holds for a user
SubsOf(u) == {e \in subscribers : e.user = u}

\* subscribe: the user the device map holds for this device, whose subscription
\* is removed and stopped
OldUserForgotten(map, device) == NoUser
OldUser(map, device) == map[device]

\* CollabGroup::subscribe
subscribe(u) ==
  /\ next_sub < MaxSubs
  /\ LET sub == next_sub
         old == OldUser(user_by_user_device, user_device(u))
         old_subs == IF old = NoUser THEN {} ELSE SubsOf(old)
         kept == subscribers \ old_subs
     IN
       /\ subscribers' = {e \in kept : e.user # u} \cup {[user |-> u, sub |-> sub]}
       /\ live' = ((live \cup {sub}) \ {e.sub : e \in old_subs})
                    \ {e.sub : e \in {k \in kept : k.user = u}}
       /\ superseded' = superseded \cup
                          {e.sub : e \in {k \in subscribers :
                                            user_device(k.user) = user_device(u)}}
  /\ user_by_user_device' = [user_by_user_device EXCEPT ![user_device(u)] = u]
  /\ next_sub' = next_sub + 1
  /\ slast' = [op |-> "subscribe"]
  /\ UNCHANGED <<notSubVars, pending_stop, got>>

\* CollabGroup::unsubscribe: the subscription is removed, its stop is spawned
unsubscribe(u) ==
  /\ subscribers' = subscribers \ SubsOf(u)
  /\ pending_stop' = pending_stop \cup {e.sub : e \in SubsOf(u)}
  /\ slast' = [op |-> "unsubscribe"]
  /\ UNCHANGED <<notSubVars, user_by_user_device, live, next_sub,
                 superseded, got>>

\* CollabGroupControl::remove_user: CollabGroup::remove_user, then the stop is
\* spawned
remove_user(u) ==
  /\ subscribers' = subscribers \ SubsOf(u)
  /\ pending_stop' = pending_stop \cup {e.sub : e \in SubsOf(u)}
  /\ slast' = [op |-> "remove_user"]
  /\ UNCHANGED <<notSubVars, user_by_user_device, live, next_sub,
                 superseded, got>>

\* the spawned task runs subscriber.stop()
StopSpawned(sub) ==
  /\ sub \in pending_stop
  /\ pending_stop' = pending_stop \ {sub}
  /\ live' = live \ {sub}
  /\ slast' = [op |-> "stop"]
  /\ UNCHANGED <<notSubVars, subscribers, user_by_user_device, next_sub,
                 superseded, got>>

\* the broadcast of the group sends an update: every subscription that was not
\* stopped forwards it to its connection
BroadcastUpdate ==
  /\ got' = live
  /\ slast' = [op |-> "broadcast"]
  /\ UNCHANGED <<notSubVars, subscribers, user_by_user_device, live,
                 pending_stop, next_sub, superseded>>

SubNext ==
  \/ \E u \in RUsers : subscribe(u)
  \/ \E u \in RUsers : unsubscribe(u)
  \/ \E u \in RUsers : remove_user(u)
  \/ \E sub \in 0 .. MaxSubs : StopSpawned(sub)
  \/ BroadcastUpdate

SubSpec == ServerInit /\ [][SubNext]_vars

\* C11: the group holds at most one subscriber per (uid, device-id); a
\* subscription replaced by a later subscribe of the same (uid, device-id) is
\* neither in the subscriber map nor running, and no broadcast reaches it.
C11_OneSubscriberPerDevice ==
  /\ \A e1, e2 \in subscribers :
       user_device(e1.user) = user_device(e2.user) => e1 = e2
  /\ superseded \cap {e.sub : e \in subscribers} = {}
  /\ superseded \cap live = {}
  /\ slast.op = "broadcast" => got \cap superseded = {}

\* a second connection of the same device subscribed, and a broadcast made
\* afterwards reached the new subscription alone
C11_Witness ==
  /\ slast.op = "broadcast"
  /\ superseded = {0}
  /\ got = {1}
  /\ \E e \in subscribers : e.sub = 1 /\ e.user.session = 2


(***************************************************************************)
(* Part IV.  insert_into_af_collab, called inside a transaction of the      *)
(* caller; transactions run at READ COMMITTED.                              *)
(***************************************************************************)
\* a transaction begins and insert_into_af_collab runs its SELECT, which sees
\* the committed row of the oid
InsertCollabSelect(t, uid, oid, workspace_id, blob) ==
  /\ txn[t].pc \in {"idle", "done"}
  /\ txn' = [txn EXCEPT ![t] =
               [pc |-> "selected", uid |-> uid, oid |-> oid,
                workspace_id |-> workspace_id, blob |-> blob,
                existing |-> af_collab[oid].workspace_id,
                write |-> "none", ret |-> "none"]]
  /\ dlast' = [op |-> "select", tx |-> t]
  /\ UNCHANGED <<notDbVars, af_collab, af_collab_member>>

\* existing_workspace_id == workspace_id
SameWorkspaceAlways(existing_workspace_id, workspace_id) == TRUE
SameWorkspace(existing_workspace_id, workspace_id) ==
  existing_workspace_id = workspace_id

\* another transaction holds an uncommitted write of the row of this oid
RowBusy(t, oid) ==
  \E o \in TxIds \ {t} : txn[o].pc = "written" /\ txn[o].oid = oid

\* Some(existing), the same workspace: UPDATE; the function returns Ok
InsertCollabUpdate(t) ==
  /\ txn[t].pc = "selected"
  /\ txn[t].existing # "none"
  /\ SameWorkspace(txn[t].existing, txn[t].workspace_id)
  /\ ~RowBusy(t, txn[t].oid)
  /\ txn' = [txn EXCEPT ![t].pc = "written", ![t].write = "update", ![t].ret = "ok"]
  /\ dlast' = [op |-> "update", tx |-> t]
  /\ UNCHANGED <<notDbVars, af_collab, af_collab_member>>

\* Some(existing), another workspace: the function returns Err, nothing written
InsertCollabMismatch(t) ==
  /\ txn[t].pc = "selected"
  /\ txn[t].existing # "none"
  /\ ~SameWorkspace(txn[t].existing, txn[t].workspace_id)
  /\ txn' = [txn EXCEPT ![t].pc = "failed", ![t].ret = "err"]
  /\ dlast' = [op |-> "mismatch", tx |-> t]
  /\ UNCHANGED <<notDbVars, af_collab, af_collab_member>>

\* None: the member row is upserted and the af_collab row inserted; the function
\* returns Ok
InsertCollabInsert(t) ==
  /\ txn[t].pc = "selected"
  /\ txn[t].existing = "none"
  /\ ~RowBusy(t, txn[t].oid)
  /\ af_collab[txn[t].oid] = NoRow
  /\ txn' = [txn EXCEPT ![t].pc = "written", ![t].write = "insert", ![t].ret = "ok"]
  /\ dlast' = [op |-> "insert", tx |-> t]
  /\ UNCHANGED <<notDbVars, af_collab, af_collab_member>>

\* None, but a row of the oid was committed since the SELECT: the INSERT fails
\* on the key of af_collab, the function returns the database error
InsertCollabDuplicate(t) ==
  /\ txn[t].pc = "selected"
  /\ txn[t].existing = "none"
  /\ ~RowBusy(t, txn[t].oid)
  /\ af_collab[txn[t].oid] # NoRow
  /\ txn' = [txn EXCEPT ![t].pc = "failed", ![t].ret = "err"]
  /\ dlast' = [op |-> "duplicate", tx |-> t]
  /\ UNCHANGED <<notDbVars, af_collab, af_collab_member>>

\* the caller commits after Ok
DbCommit(t) ==
  /\ txn[t].pc = "written"
  /\ af_collab' =
       [af_collab EXCEPT ![txn[t].oid] =
          IF txn[t].write = "insert"
            THEN [workspace_id |-> txn[t].workspace_id, blob |-> txn[t].blob,
                  owner_uid |-> txn[t].uid]
            ELSE [@ EXCEPT !.blob = txn[t].blob, !.owner_uid = txn[t].uid]]
  /\ af_collab_member' =
       IF txn[t].write = "insert"
         THEN af_collab_member \cup {[uid |-> txn[t].uid, oid |-> txn[t].oid]}
         ELSE af_collab_member
  /\ txn' = [txn EXCEPT ![t].pc = "done"]
  /\ dlast' = [op |-> "commit", tx |-> t]
  /\ UNCHANGED notDbVars

\* the caller rolls back after Err
DbRollback(t) ==
  /\ txn[t].pc = "failed"
  /\ txn' = [txn EXCEPT ![t].pc = "done"]
  /\ dlast' = [op |-> "rollback", tx |-> t]
  /\ UNCHANGED <<notDbVars, af_collab, af_collab_member>>

DbNext ==
  \/ \E t \in TxIds, uid \in Uids, oid \in Oids, w \in Workspaces, b \in Blobs :
       InsertCollabSelect(t, uid, oid, w, b)
  \/ \E t \in TxIds : InsertCollabUpdate(t)
  \/ \E t \in TxIds : InsertCollabMismatch(t)
  \/ \E t \in TxIds : InsertCollabInsert(t)
  \/ \E t \in TxIds : InsertCollabDuplicate(t)
  \/ \E t \in TxIds : DbCommit(t)
  \/ \E t \in TxIds : DbRollback(t)

DbSpec == ServerInit /\ [][DbNext]_vars

\* the call of transaction t is for an oid whose committed row has another
\* workspace-id
OtherWorkspace(call) ==
  /\ call.pc # "idle"
  /\ af_collab[call.oid] # NoRow
  /\ af_collab[call.oid].workspace_id # call.workspace_id

\* C12: workspace stability.  The stored workspace-id of an oid never changes
\* and its row never disappears; a call for an oid whose row has another
\* workspace-id never returns Ok, and no step of its transaction changes
\* af_collab or af_collab_member.
C12_WorkspaceStability ==
  [][/\ \A o \in Oids :
          af_collab[o] # NoRow =>
            af_collab'[o].workspace_id = af_collab[o].workspace_id
     /\ \A t \in TxIds :
          (dlast'.tx = t /\ OtherWorkspace(txn'[t])) =>
            /\ txn'[t].ret # "ok"
            /\ af_collab' = af_collab
            /\ af_collab_member' = af_collab_member]_vars

\* a call with another workspace-id for an existing oid returned Err and was
\* rolled back; the row is the one first inserted
C12_Witness ==
  /\ dlast = [op |-> "rollback", tx |-> "t2"]
  /\ txn["t2"].ret = "err"
  /\ txn["t2"].existing = "w1"
  /\ txn["t2"].workspace_id = "w2"
  /\ txn["t2"].oid = "o1"
  /\ af_collab["o1"] = [workspace_id |-> "w1", blob |-> "b1", owner_uid |-> 1]
  /\ af_collab_member = {[uid |-> 1, oid |-> "o1"]}


(***************************************************************************)
(* Part V.  create_snapshot_and_maintain_limit: each call runs in a         *)
(* transaction of its own, at READ COMMITTED.                               *)
(***************************************************************************)
\* the snapshots of an object among rows
RowsOf(rows, oid) == {r \in rows : r.oid = oid}

\* SELECT sid ... ORDER BY created_at DESC LIMIT n: the n newest rows
Newest(rows, n) ==
  {r \in rows : Cardinality({q \in rows : q.created_at > r.created_at}) < n}

\* pool.begin() and the INSERT, which takes the next sid and the time
SnapshotInsert(t, oid, snapshot_limit) ==
  /\ stx[t].pc \in {"idle", "done"}
  /\ next_sid <= MaxSnapshots
  /\ stx' = [stx EXCEPT ![t] =
               [pc |-> "inserted", oid |-> oid, snapshot_limit |-> snapshot_limit,
                row |-> [sid |-> next_sid, oid |-> oid, created_at |-> next_sid],
                deleted |-> {}]]
  /\ next_sid' = next_sid + 1
  /\ plast' = [op |-> "insert", tx |-> t]
  /\ UNCHANGED <<notSnapVars, af_collab_snapshot>>

\* the DELETE: it sees the committed rows and the row of its own transaction
SnapshotDelete(t) ==
  /\ stx[t].pc = "inserted"
  /\ LET visible == RowsOf(af_collab_snapshot, stx[t].oid) \cup {stx[t].row}
         keep == Newest(visible, stx[t].snapshot_limit)
     IN stx' = [stx EXCEPT ![t].pc = "deleted", ![t].deleted = visible \ keep]
  /\ plast' = [op |-> "delete", tx |-> t]
  /\ UNCHANGED <<notSnapVars, af_collab_snapshot, next_sid>>

\* tx.commit(): the insert and the delete take effect
SnapshotCommit(t) ==
  /\ stx[t].pc = "deleted"
  /\ af_collab_snapshot' = (af_collab_snapshot \cup {stx[t].row}) \ stx[t].deleted
  /\ stx' = [stx EXCEPT ![t].pc = "done"]
  /\ plast' = [op |-> "commit", tx |-> t]
  /\ UNCHANGED <<notSnapVars, next_sid>>

\* a statement or the commit fails: the transaction is dropped and rolls back
SnapshotRollback(t) ==
  /\ stx[t].pc \in {"inserted", "deleted"}
  /\ stx' = [stx EXCEPT ![t].pc = "done"]
  /\ plast' = [op |-> "rollback", tx |-> t]
  /\ UNCHANGED <<notSnapVars, af_collab_snapshot, next_sid>>

SnapNext ==
  \/ \E t \in TxIds, oid \in SnapOids, n \in 1 .. MaxLimit : SnapshotInsert(t, oid, n)
  \/ \E t \in TxIds : SnapshotDelete(t)
  \/ \E t \in TxIds : SnapshotCommit(t)
  \/ \E t \in TxIds : SnapshotRollback(t)

SnapSpec == ServerInit /\ [][SnapNext]_vars

\* C13: snapshot cap.  The commit of a call with limit N leaves at most N
\* snapshots of its object, which are the N newest ones, the new one included,
\* and leaves the snapshots of other objects alone; no other step changes the
\* table.
C13_SnapshotCap ==
  [][/\ plast'.op = "commit" =>
          LET call == stx[plast'.tx]
              mine == RowsOf(af_collab_snapshot', call.oid)
          IN /\ Cardinality(mine) <= call.snapshot_limit
             /\ call.row \in mine
             /\ mine = Newest(RowsOf(af_collab_snapshot, call.oid) \cup {call.row},
                              call.snapshot_limit)
             /\ \A o \in SnapOids \ {call.oid} :
                  RowsOf(af_collab_snapshot', o) = RowsOf(af_collab_snapshot, o)
     /\ plast'.op # "commit" => af_collab_snapshot' = af_collab_snapshot]_vars


(***************************************************************************)
(* Part VI.  CollabRedisStream::lease and the instances that snapshot.      *)
(***************************************************************************)
\* a TTL shorter than the one of the lease
LeaseTtlShort == 60 \div 2

\* CollabRedisStream::LEASE_TTL, in seconds
LEASE_TTL == 60

\* the steps in which the clock advances
ClockSteps == {20, 30}

\* the store drops a key when its time to live has passed
Live(k) == lease_store[k] # NoLease /\ now < lease_store[k].expires

\* lease(workspace_id, object_id) finds no live lease: the key is set with
\* the TTL and the acquisition is returned
LeaseAcquire(i, workspace_id, object_id) ==
  LET k == lease_key(workspace_id, object_id) IN
  /\ snapshotter[i].pc = "idle"
  /\ snapshotter[i].tries < MaxAttempts
  /\ ~Live(k)
  /\ lease_store' = [lease_store EXCEPT ![k] = [token |-> <<i, now>>, expires |-> now + LEASE_TTL]]
  /\ snapshotter' = [snapshotter EXCEPT ![i] =
                       [pc |-> "holding", key |-> k, at |-> now, tries |-> @.tries + 1]]
  /\ llast' = [op |-> "lease", by |-> i, ret |-> "acquired"]
  /\ UNCHANGED <<notLeaseVars, now>>

\* lease(workspace_id, object_id) finds a live lease: Ok(None), and the
\* attempt is skipped
LeaseContended(i, workspace_id, object_id) ==
  LET k == lease_key(workspace_id, object_id) IN
  /\ snapshotter[i].pc = "idle"
  /\ snapshotter[i].tries < MaxAttempts
  /\ Live(k)
  /\ snapshotter' = [snapshotter EXCEPT ![i] =
                       [pc |-> "idle", key |-> k, at |-> now, tries |-> @.tries + 1]]
  /\ llast' = [op |-> "lease", by |-> i, ret |-> "none"]
  /\ UNCHANGED <<notLeaseVars, lease_store, now>>

\* the holder writes the snapshot
WriteSnapshot(i) ==
  /\ snapshotter[i].pc = "holding"
  /\ snapshotter' = [snapshotter EXCEPT ![i].pc = "written"]
  /\ llast' = [op |-> "write", by |-> i, ret |-> "ok"]
  /\ UNCHANGED <<notLeaseVars, lease_store, now>>

\* the holder releases: the key is deleted if it still holds this token
LeaseRelease(i) ==
  LET k == snapshotter[i].key IN
  /\ snapshotter[i].pc = "written"
  /\ lease_store' = IF lease_store[k].token = <<i, snapshotter[i].at>>
                    THEN [lease_store EXCEPT ![k] = NoLease]
                    ELSE lease_store
  /\ snapshotter' = [snapshotter EXCEPT ![i].pc = "idle"]
  /\ llast' = [op |-> "release", by |-> i, ret |-> "ok"]
  /\ UNCHANGED <<notLeaseVars, now>>

\* time passes
ClockAdvance(d) ==
  /\ now + d <= MaxNow
  /\ now' = now + d
  /\ llast' = [op |-> "clock", by |-> "none", ret |-> "ok"]
  /\ UNCHANGED <<notLeaseVars, lease_store, snapshotter>>

LeaseNext ==
  \/ \E i \in Instances, w \in Workspaces, o \in Oids : LeaseAcquire(i, w, o)
  \/ \E i \in Instances, w \in Workspaces, o \in Oids : LeaseContended(i, w, o)
  \/ \E i \in Instances : WriteSnapshot(i)
  \/ \E i \in Instances : LeaseRelease(i)
  \/ \E d \in ClockSteps : ClockAdvance(d)

LeaseSpec == ServerInit /\ [][LeaseNext]_vars

\* an instance got the lease of k less than 60 s ago and has not released it
HoldsLease(i, k) ==
  /\ snapshotter[i].pc \in {"holding", "written"}
  /\ snapshotter[i].key = k
  /\ now < snapshotter[i].at + 60

\* C14: snapshot lease exclusion.  At any instant at most one instance holds
\* the lease of a key within 60 s of getting it, and only a holder writes; an
\* attempt made while another instance holds the lease returns none (not an
\* error) and the instance goes idle without writing; any other attempt, one
\* made 60 s or more after an unreleased grant included, gets the lease.
C14_LeaseExclusion ==
  /\ \A k \in LeaseKeys : Cardinality({i \in Instances : HoldsLease(i, k)}) <= 1
  /\ llast.op = "write" => snapshotter[llast.by].pc = "written"
  /\ llast.op = "lease" =>
       LET me == snapshotter[llast.by]
           holders == {j \in Instances \ {llast.by} : HoldsLease(j, me.key)} IN
        /\ me.at = now
        /\ llast.ret \in {"none", "acquired"}
        /\ llast.ret = "none" <=> holders # {}
        /\ llast.ret = "none" => me.pc = "idle"
        /\ llast.ret = "acquired" => me.pc = "holding" /\ HoldsLease(llast.by, me.key)

\* n1 took the lease and never released it; n2 was refused within the TTL and
\* got the lease once the TTL had passed
C14_Witness ==
  /\ llast = [op |-> "lease", by |-> "n2", ret |-> "acquired"]
  /\ snapshotter["n1"].pc = "holding"
  /\ snapshotter["n1"].key = snapshotter["n2"].key
  /\ snapshotter["n2"].tries = 2
  /\ snapshotter["n2"].at = snapshotter["n1"].at + 60


(***************************************************************************)
(* Part VII.  CollabGroupControl: create_group_if_need, remove_group and    *)
(* tick, run one command at a time by GroupControlRunner; modified_at is    *)
(* reset by the group's broadcast while a command runs.                     *)
(***************************************************************************)
\* one timeout for every kind
timeout_secs_any(collab_type) == 10 * 60

\* CollabGroup::timeout_secs
timeout_secs(collab_type) ==
  CASE collab_type = "Document" -> 10 * 60
    [] collab_type \in {"Database", "DatabaseRow"} -> 60 * 60
    [] collab_type \in {"WorkspaceDatabase", "Folder", "UserAwareness"} -> 2 * 60 * 60

\* CollabGroup::is_inactive: modified_at.elapsed().as_secs() > timeout_secs()
is_inactive(group) == group.idle > timeout_secs(group.collab_type)

\* the tick stops collecting once it holds more than this many ids
TickBreak == 5

\* the seconds by which the clock advances in one step
RegClockSteps == {1, 10 * 60, 60 * 60}

\* a registry that never reports a group
contains_key_never(map, object_id) == FALSE

\* group_by_object_id.contains_key(object_id)
contains_key(map, object_id) == map[object_id] # NoGroup

\* create_group_if_need: nothing when the group exists, else a new group
\* without subscribers whose modified_at is now; the entry of the map is set
\* to the new group
create_group_if_need(object_id, collab_type) ==
  /\ tick_pending = {}
  /\ IF contains_key(group_by_object_id, object_id)
       THEN UNCHANGED <<group_by_object_id, user_count, live_groups>>
       ELSE /\ group_by_object_id' =
                 [group_by_object_id EXCEPT ![object_id] =
                    [collab_type |-> collab_type, idle |-> 0]]
            /\ user_count' = [user_count EXCEPT ![object_id] = 0]
            /\ live_groups' = [live_groups EXCEPT ![object_id] = @ + 1]
  /\ tlast' = [op |-> "create", oid |-> object_id,
               found |-> group_by_object_id[object_id] # NoGroup]
  /\ UNCHANGED <<notRegVars, advances, tick_pending, tick_seen>>

\* the RemoveGroup command
remove_group(object_id) ==
  /\ tick_pending = {}
  /\ group_by_object_id' = [group_by_object_id EXCEPT ![object_id] = NoGroup]
  /\ user_count' = [user_count EXCEPT ![object_id] = 0]
  /\ live_groups' = [live_groups EXCEPT ![object_id] =
                       IF group_by_object_id[object_id] # NoGroup THEN @ - 1 ELSE @]
  /\ tlast' = [op |-> "remove", oid |-> object_id,
               found |-> group_by_object_id[object_id] # NoGroup]
  /\ UNCHANGED <<notRegVars, advances, tick_pending, tick_seen>>

\* the group's broadcast handles a message and sets modified_at to now
Touch(object_id) ==
  /\ group_by_object_id[object_id] # NoGroup
  /\ group_by_object_id[object_id].idle # 0
  /\ group_by_object_id' = [group_by_object_id EXCEPT ![object_id].idle = 0]
  /\ tlast' = [op |-> "touch", oid |-> object_id, found |-> TRUE]
  /\ UNCHANGED <<notRegVars, advances, tick_pending, tick_seen, user_count, live_groups>>

\* d seconds pass
RegClockAdvance(d) ==
  /\ advances < MaxAdvances
  /\ advances' = advances + 1
  /\ group_by_object_id' =
       [o \in AllGroupIds |-> IF group_by_object_id[o] = NoGroup THEN NoGroup
                           ELSE [group_by_object_id[o] EXCEPT !.idle = @ + d]]
  /\ tlast' = [op |-> "clock", oid |-> "none", found |-> FALSE]
  /\ UNCHANGED <<notRegVars, tick_pending, tick_seen, user_count, live_groups>>

\* tick, first loop: collect the ids of the inactive groups, in the order the
\* map yields them, and stop after the id that makes more than TickBreak
TickCollect(ids) ==
  LET inactive == {o \in AllGroupIds : group_by_object_id[o] # NoGroup
                                      /\ is_inactive(group_by_object_id[o])} IN
  /\ tick_pending = {}
  /\ ids \subseteq inactive
  /\ ids # {}
  /\ \/ ids = inactive /\ Cardinality(ids) <= TickBreak + 1
     \/ Cardinality(ids) = TickBreak + 1
  /\ tick_pending' = ids
  /\ tick_seen' = [o \in AllGroupIds |-> IF o \in ids THEN group_by_object_id[o].idle ELSE 0]
  /\ tlast' = [op |-> "tick", oid |-> "none", found |-> FALSE]
  /\ UNCHANGED <<notRegVars, group_by_object_id, advances, user_count, live_groups>>

\* tick, second loop: remove_group for one collected id
TickRemove(object_id) ==
  /\ object_id \in tick_pending
  /\ tick_pending' = tick_pending \ {object_id}
  /\ group_by_object_id' = [group_by_object_id EXCEPT ![object_id] = NoGroup]
  /\ user_count' = [user_count EXCEPT ![object_id] = 0]
  /\ live_groups' = [live_groups EXCEPT ![object_id] =
                       IF group_by_object_id[object_id] # NoGroup THEN @ - 1 ELSE @]
  /\ tlast' = [op |-> "tick_remove", oid |-> object_id,
               found |-> group_by_object_id[object_id] # NoGroup]
  /\ UNCHANGED <<notRegVars, advances, tick_seen>>

RegNext ==
  \/ \E o \in GroupIds, t \in CollabTypes : create_group_if_need(o, t)
  \/ \E o \in GroupIds : remove_group(o)
  \/ \E o \in GroupIds : Touch(o)
  \/ \E d \in RegClockSteps : RegClockAdvance(d)
  \/ \E ids \in SUBSET GroupIds : TickCollect(ids)
  \/ \E o \in GroupIds : TickRemove(o)

RegSpec == ServerInit /\ [][RegNext]_vars

GroupOrder == <<"g1", "g2", "g3", "g4", "g5", "g6", "g7">>

FirstGroups(n) == {GroupOrder[i] : i \in 1 .. n}

SweepInit ==
  /\ SinkIdle
  /\ GroupIdle
  /\ SubIdle /\ DbIdle /\ SnapIdle /\ LeaseIdle /\ ConnIdle /\ FrontIdle
  /\ TimeoutIdle /\ RunnerIdle /\ GenIdle /\ ForwardIdle /\ ServerIdle /\ RtIdle
  /\ \E n \in 0 .. Len(GroupOrder), t \in {"Document", "Folder"} :
       group_by_object_id =
         [o \in AllGroupIds |-> IF o \in FirstGroups(n)
                                THEN [collab_type |-> t, idle |-> 0] ELSE NoGroup]
  /\ advances = 0
  /\ tick_pending = {}
  /\ tick_seen = [o \in AllGroupIds |-> 0]
  /\ user_count = [o \in AllGroupIds |-> 0]
  /\ live_groups = [o \in AllGroupIds |-> IF group_by_object_id[o] = NoGroup THEN 0 ELSE 1]
  /\ tlast = [op |-> "new", oid |-> "none", found |-> FALSE]

\* CollabGroup::subscribe of a user that is new to the group; modified_at is
\* handed to the broadcast, not set
GroupSubscribe(object_id) ==
  /\ tick_pending = {}
  /\ group_by_object_id[object_id] # NoGroup
  /\ user_count[object_id] = 0
  /\ user_count' = [user_count EXCEPT ![object_id] = 1]
  /\ tlast' = [op |-> "subscribe", oid |-> object_id, found |-> TRUE]
  /\ UNCHANGED <<notRegVars, group_by_object_id, advances, tick_pending, tick_seen,
                 live_groups>>

\* the RemoveUser command: CollabGroup::remove_user
GroupRemoveUser(object_id) ==
  /\ tick_pending = {}
  /\ user_count[object_id] > 0
  /\ user_count' = [user_count EXCEPT ![object_id] = @ - 1]
  /\ tlast' = [op |-> "remove_user", oid |-> object_id, found |-> TRUE]
  /\ UNCHANGED <<notRegVars, group_by_object_id, advances, tick_pending, tick_seen,
                 live_groups>>

SweepNext ==
  \/ \E o \in GroupIds : GroupSubscribe(o)
  \/ \E o \in GroupIds : GroupRemoveUser(o)
  \/ \E d \in RegClockSteps : RegClockAdvance(d)
  \/ \E ids \in SUBSET AllGroupIds : TickCollect(ids)
  \/ \E o \in AllGroupIds : TickRemove(o)

SweepSpec == SweepInit /\ [][SweepNext]_vars

\* C28: a group with at least one subscriber is never taken for inactive: the
\* tick removes no group whose subscriber set is non-empty, however long ago
\* the group was last modified.
C28_SubscribedGroupStays ==
  [][/\ tlast'.op = "tick" => \A o \in tick_pending' : user_count[o] = 0
     /\ tlast'.op = "tick_remove" => user_count[tlast'.oid] = 0]_vars

\* the groups the running tick has removed
TickRemoved == {o \in AllGroupIds : tick_seen[o] # 0 /\ group_by_object_id[o] = NoGroup}

\* C29: one execution of tick removes at most 5 groups from the registry,
\* however many groups are inactive; the other inactive groups stay for later
\* ticks.
C29_BoundedTick == Cardinality(TickRemoved) <= 5


(***************************************************************************)
(* Part VIII.  handle_new_connection, handle_disconnect and the             *)
(* subscription a client message makes.                                     *)
(***************************************************************************)
\* handle_new_connection: the user whose groups are left, the old one kept
OldUserKept(old_user) == NoUser

\* handle_new_connection: the user whose groups are left is the old user that
\* handle_user_connect returned
OldUserRemoved(old_user) == old_user

\* handle_new_connection up to the await of remove_user: handle_user_connect
\* puts the user and its router in place of the ones of the same device and
\* hands back the old user
handle_new_connection(connected_user) ==
  LET d == user_device(connected_user)
      old_user == user_by_device[d] IN
  /\ connected_user \notin ever_connected
  /\ ever_connected' = ever_connected \cup {connected_user}
  /\ user_by_device' = [user_by_device EXCEPT ![d] = connected_user]
  /\ client_message_routers' = (client_message_routers \ {old_user}) \cup {connected_user}
  /\ conn_pending' = conn_pending \cup
                       {[op |-> "connect", user |-> connected_user,
                         old |-> old_user, remove |-> OldUserRemoved(old_user)]}
  /\ clast' = [op |-> "handle_user_connect", user |-> connected_user, old |-> old_user, left |-> {}]
  /\ UNCHANGED <<notConnVars, editing_by_user>>

\* handle_new_connection, the rest: group_manager.remove_user(old_user)
NewConnectionDone(h) ==
  /\ h \in conn_pending
  /\ h.op = "connect"
  /\ conn_pending' = conn_pending \ {h}
  /\ editing_by_user' = {e \in editing_by_user : h.remove = NoUser \/ e.user # h.remove}
  /\ clast' = [op |-> "connected", user |-> h.user, old |-> h.old,
               left |-> editing_by_user \ editing_by_user']
  /\ UNCHANGED <<notConnVars, user_by_device, client_message_routers, ever_connected>>

\* handle_disconnect up to the await of remove_user: handle_user_disconnect
\* removes the user and its router when the session is the stored one
\* a disconnect taken for current whenever the device has a connection
SessionIgnored(stored, user) == stored # NoUser

\* handle_user_disconnect: the stored user of the device is the one that
\* disconnects, session included
SessionMatches(stored, user) == stored = user

handle_disconnect(disconnect_user) ==
  LET d == user_device(disconnect_user)
      was_removed == SessionMatches(user_by_device[d], disconnect_user) IN
  /\ disconnect_user \in ever_connected
  /\ user_by_device' = IF was_removed THEN [user_by_device EXCEPT ![d] = NoUser]
                       ELSE user_by_device
  /\ client_message_routers' = IF was_removed
                               THEN client_message_routers \ {disconnect_user}
                               ELSE client_message_routers
  /\ conn_pending' = IF was_removed
                     THEN conn_pending \cup {[op |-> "disconnect", user |-> disconnect_user,
                                              old |-> NoUser, remove |-> disconnect_user]}
                     ELSE conn_pending
  /\ clast' = [op |-> "handle_user_disconnect", user |-> disconnect_user, old |-> NoUser, left |-> {}]
  /\ UNCHANGED <<notConnVars, editing_by_user, ever_connected>>

\* handle_disconnect, the rest: group_manager.remove_user(disconnect_user)
DisconnectDone(h) ==
  /\ h \in conn_pending
  /\ h.op = "disconnect"
  /\ conn_pending' = conn_pending \ {h}
  /\ editing_by_user' = {e \in editing_by_user : e.user # h.remove}
  /\ clast' = [op |-> "disconnected", user |-> h.user, old |-> NoUser, left |-> {}]
  /\ UNCHANGED <<notConnVars, user_by_device, client_message_routers, ever_connected>>

\* a client message of a user for an object it has not joined: the group
\* command runner takes the user's router and subscribes the user to the group
SubscribeOnMessage(user, object_id) ==
  /\ user \in client_message_routers
  /\ [user |-> user, oid |-> object_id] \notin editing_by_user
  /\ editing_by_user' = editing_by_user \cup {[user |-> user, oid |-> object_id]}
  /\ clast' = [op |-> "subscribe", user |-> user, old |-> NoUser, left |-> {}]
  /\ UNCHANGED <<notConnVars, user_by_device, client_message_routers, conn_pending,
                 ever_connected>>

ConnNext ==
  \/ \E u \in RUsers : handle_new_connection(u)
  \/ \E h \in conn_pending : NewConnectionDone(h)
  \/ \E u \in RUsers : handle_disconnect(u)
  \/ \E h \in conn_pending : DisconnectDone(h)
  \/ \E u \in RUsers, o \in Oids : SubscribeOnMessage(u, o)

ConnSpec == ServerInit /\ [][ConnNext]_vars

C25_StaleDisconnectIsNoop ==
  [][(/\ clast'.op = "handle_user_disconnect"
      /\ user_by_device[user_device(clast'.user)] # clast'.user)
       => /\ user_by_device' = user_by_device
          /\ client_message_routers' = client_message_routers
          /\ editing_by_user' = editing_by_user
          /\ conn_pending' = conn_pending]_vars

\* C25 witness: session 1 of device a was replaced by session 2, which has
\* joined a group; the disconnect of session 1 arrived afterwards
C25_Witness ==
  /\ clast.op = "handle_user_disconnect"
  /\ clast.user = [uid |-> 1, device_id |-> "a", session |-> 1]
  /\ user_by_device["1:a"] = [uid |-> 1, device_id |-> "a", session |-> 2]
  /\ user_by_device["1:a"] \in client_message_routers
  /\ editing_by_user = {[user |-> user_by_device["1:a"], oid |-> "o1"]}
  /\ conn_pending = {}


(***************************************************************************)
(* Part IX.  handle_client_message, the consumer of a command channel and   *)
(* the sweeper of inactive groups.                                          *)
(***************************************************************************)
\* the call owns a clone of a sender
Holding(h) == calls[h].pc \in {"notify_wait", "have", "spawned", "blocked", "sent"}

\* the channels that exist
Created == {c \in ChanIds : chan[c] # NoChan}

\* the entry is taken for vacant whatever the map holds
EntryAlwaysVacant(map, object_id) == FALSE

\* group_sender_by_object_id.entry(object_id) is Entry::Occupied
EntryOccupied(map, object_id) == map[object_id] # 0

\* handle_client_message has returned Ok for the call
Returned(h) == calls[h].pc \in {"spawned", "blocked", "sent", "done"}

\* group_sender_by_object_id.get(&object_id); prior records the calls for the
\* object that had returned when this one began
GetSender(h, object_id) ==
  /\ calls[h].pc = "idle"
  /\ calls' = [calls EXCEPT ![h] =
                IF group_sender_by_object_id[object_id] # 0
                THEN [pc |-> "have", oid |-> object_id,
                      chan |-> group_sender_by_object_id[object_id],
                      epoch |-> sweeps[object_id], saw_none |-> FALSE,
                      prior |-> {g \in Callers : Returned(g) /\ calls[g].oid = object_id}]
                ELSE [pc |-> "missed", oid |-> object_id, chan |-> 0, epoch |-> 0,
                      saw_none |-> TRUE,
                      prior |-> {g \in Callers : Returned(g) /\ calls[g].oid = object_id}]]
  /\ flast' = [op |-> "get", by |-> h]
  /\ UNCHANGED <<notFrontVars, group_sender_by_object_id, chan, sweeps>>

\* Entry::Occupied: the sender in the map is cloned
EntryOccupiedClone(h) ==
  LET o == calls[h].oid IN
  /\ calls[h].pc = "missed"
  /\ EntryOccupied(group_sender_by_object_id, o)
  /\ calls' = [calls EXCEPT ![h].pc = "have", ![h].chan = group_sender_by_object_id[o],
                          ![h].epoch = sweeps[o]]
  /\ flast' = [op |-> "occupied", by |-> h]
  /\ UNCHANGED <<notFrontVars, group_sender_by_object_id, chan, sweeps>>

\* Entry::Vacant: a channel is made, its consumer is spawned, the sender is
\* inserted, and the call waits for the consumer's notify
EntryVacantCreate(h) ==
  LET o == calls[h].oid IN
  /\ calls[h].pc = "missed"
  /\ ~EntryOccupied(group_sender_by_object_id, o)
  /\ Created # ChanIds
  /\ LET c == CHOOSE n \in ChanIds \ Created : \A m \in ChanIds \ Created : n <= m IN
       /\ chan' = [chan EXCEPT ![c] = [oid |-> o, epoch |-> sweeps[o], queue |-> <<>>,
                                       consumer |-> "starting", cur |-> "none",
                                       left |-> {}]]
       /\ group_sender_by_object_id' = [group_sender_by_object_id EXCEPT ![o] = c]
       /\ calls' = [calls EXCEPT ![h].pc = "notify_wait", ![h].chan = c,
                               ![h].epoch = sweeps[o]]
  /\ flast' = [op |-> "vacant", by |-> h]
  /\ UNCHANGED <<notFrontVars, sweeps>>

\* notify.notified() returns: the consumer has started
Notified(h) ==
  /\ calls[h].pc = "notify_wait"
  /\ chan[calls[h].chan].consumer # "starting"
  /\ calls' = [calls EXCEPT ![h].pc = "have"]
  /\ flast' = [op |-> "notified", by |-> h]
  /\ UNCHANGED <<notFrontVars, group_sender_by_object_id, chan, sweeps>>

\* tokio::spawn of the task that sends; handle_client_message returns Ok
SpawnSend(h) ==
  /\ calls[h].pc = "have"
  /\ calls' = [calls EXCEPT ![h].pc = "spawned"]
  /\ flast' = [op |-> "spawn", by |-> h]
  /\ UNCHANGED <<notFrontVars, group_sender_by_object_id, chan, sweeps>>

\* sender.send(..).await in the task: the command is queued when the channel
\* has room, else the task waits for room
SendCommand(h) ==
  LET c == calls[h].chan IN
  /\ calls[h].pc = "spawned"
  /\ IF Len(chan[c].queue) < ChanCap
     THEN /\ chan' = [chan EXCEPT ![c].queue = Append(@, h)]
          /\ calls' = [calls EXCEPT ![h].pc = "sent"]
     ELSE /\ calls' = [calls EXCEPT ![h].pc = "blocked"]
          /\ UNCHANGED chan
  /\ flast' = [op |-> "send", by |-> h]
  /\ UNCHANGED <<notFrontVars, group_sender_by_object_id, sweeps>>

\* the waiting send gets room
SendResume(h) ==
  LET c == calls[h].chan IN
  /\ calls[h].pc = "blocked"
  /\ Len(chan[c].queue) < ChanCap
  /\ chan' = [chan EXCEPT ![c].queue = Append(@, h)]
  /\ calls' = [calls EXCEPT ![h].pc = "sent"]
  /\ flast' = [op |-> "resume", by |-> h]
  /\ UNCHANGED <<notFrontVars, group_sender_by_object_id, sweeps>>

\* the consumer starts and notifies
ConsumerReady(c) ==
  /\ chan[c].consumer = "starting"
  /\ chan' = [chan EXCEPT ![c].consumer = "waiting"]
  /\ flast' = [op |-> "ready", by |-> "none"]
  /\ UNCHANGED <<notFrontVars, group_sender_by_object_id, calls, sweeps>>

\* the consumer receives the next command and starts to handle it
ConsumerRecv(c) ==
  /\ chan[c].consumer = "waiting"
  /\ chan[c].queue # <<>>
  /\ Head(chan[c].queue) \in Callers
  /\ chan' = [chan EXCEPT ![c].consumer = "processing", ![c].cur = Head(chan[c].queue),
                          ![c].queue = Tail(@)]
  /\ flast' = [op |-> "recv", by |-> "none"]
  /\ UNCHANGED <<notFrontVars, group_sender_by_object_id, calls, sweeps>>

\* the consumer has handled the command and replies; the sending task ends
ConsumerDone(c) ==
  /\ chan[c].consumer = "processing"
  /\ chan' = [chan EXCEPT ![c].consumer = "waiting", ![c].cur = "none"]
  /\ calls' = [calls EXCEPT ![chan[c].cur].pc = "done"]
  /\ flast' = [op |-> "handled", by |-> chan[c].cur]
  /\ UNCHANGED <<notFrontVars, group_sender_by_object_id, sweeps>>

\* recv yields None as soon as the map holds no sender of the channel
RecvNoneEarly(c) ==
  /\ chan[c].queue = <<>>
  /\ group_sender_by_object_id[chan[c].oid] # c

\* receiver.recv() yields None: the queue is empty and every sender of the
\* channel, the one in the map and the clones held by calls, is dropped
RecvNone(c) ==
  /\ chan[c].queue = <<>>
  /\ group_sender_by_object_id[chan[c].oid] # c
  /\ \A h \in Callers : ~(Holding(h) /\ calls[h].chan = c)

\* recv yields None and the consumer ends
ConsumerEnd(c) ==
  /\ chan[c].consumer = "waiting"
  /\ RecvNone(c)
  /\ chan' = [chan EXCEPT ![c].consumer = "ended"]
  /\ flast' = [op |-> "end", by |-> "none"]
  /\ UNCHANGED <<notFrontVars, group_sender_by_object_id, calls, sweeps>>

\* the task of spawn_rt_command waits in send with the map's entry of the
\* object in its hands, which keeps the entry where it is
RtPinned(object_id) == rt_task.pc = "send" /\ rt_task.cmd.object_id = object_id

\* the sweeper: the group of the object is reported inactive, which depends
\* on the time of its last change only, and the sender is removed from the
\* map; left records the commands that were in the channel at that moment
SweepInactive(object_id) ==
  LET c == group_sender_by_object_id[object_id] IN
  /\ c # 0
  /\ sweeps[object_id] < MaxSweeps
  /\ ~RtPinned(object_id)
  /\ group_sender_by_object_id' = [group_sender_by_object_id EXCEPT ![object_id] = 0]
  /\ sweeps' = [sweeps EXCEPT ![object_id] = @ + 1]
  /\ chan' = [chan EXCEPT ![c].left = Range(chan[c].queue)]
  /\ flast' = [op |-> "sweep", by |-> "none"]
  /\ UNCHANGED <<notFrontVars, calls>>

FrontNext ==
  \/ \E h \in Callers, o \in Oids : GetSender(h, o)
  \/ \E h \in Callers : EntryOccupiedClone(h)
  \/ \E h \in Callers : EntryVacantCreate(h)
  \/ \E h \in Callers : Notified(h)
  \/ \E h \in Callers : SpawnSend(h)
  \/ \E h \in Callers : SendCommand(h)
  \/ \E h \in Callers : SendResume(h)
  \/ \E c \in ChanIds : ConsumerReady(c)
  \/ \E c \in ChanIds : ConsumerRecv(c)
  \/ \E c \in ChanIds : ConsumerDone(c)
  \/ \E c \in ChanIds : ConsumerEnd(c)
  \/ \E o \in Oids : SweepInactive(o)

FrontSpec == ServerInit /\ [][FrontNext]_vars

\* C17: per-group linearisation.  At every instant at most one consumer is
\* handling a command of a given object id, also after the sweeper has removed
\* the object's sender and a later client message has made a new one.
C17_OneConsumerPerObject ==
  \A o \in Oids :
    Cardinality({c \in ChanIds : chan[c].oid = o /\ chan[c].consumer = "processing"}) <= 1


\* C18: concurrent ensure does not race.  Between two sweeps of an object id
\* one command channel with one consumer is made for it, however many calls
\* found no sender; all calls that took their sender in that time hold the
\* same channel, the one in the map, and the commands they send are queued on
\* it or handled by its consumer.
C18_ConcurrentEnsure ==
  /\ \A c, d \in Created :
       (chan[c].oid = chan[d].oid /\ chan[c].epoch = chan[d].epoch) => c = d
  /\ \A c \in Created : chan[c].consumer # "none"
  /\ \A h \in Callers : Holding(h) =>
       /\ calls[h].chan \in Created
       /\ chan[calls[h].chan].oid = calls[h].oid
       /\ chan[calls[h].chan].epoch = calls[h].epoch
       /\ calls[h].pc = "sent" =>
            \/ chan[calls[h].chan].cur = h
            \/ \E k \in 1 .. Len(chan[calls[h].chan].queue) : chan[calls[h].chan].queue[k] = h
       /\ \A g \in Callers :
            (Holding(g) /\ calls[g].oid = calls[h].oid /\ calls[g].epoch = calls[h].epoch)
               => calls[g].chan = calls[h].chan
  /\ \A o \in Oids : group_sender_by_object_id[o] # 0 =>
       /\ chan[group_sender_by_object_id[o]].oid = o
       /\ chan[group_sender_by_object_id[o]].epoch = sweeps[o]

\* three calls for one object found no sender in the map; one channel was
\* made and all three sent their command on it
C18_Witness ==
  /\ \A h \in Callers : calls[h].saw_none /\ calls[h].chan = 1
                          /\ calls[h].pc \in {"sent", "done"}
  /\ Created = {1}
  /\ sweeps["o1"] = 0

\* C20: backpressure.  A task that sends a command to a channel that is full
\* does not wait for room: the submission ends in a soft error for the client,
\* and the call that spawned the task has returned.
C20_Backpressure ==
  [][\A h \in Callers :
       (calls[h].pc = "spawned" /\ calls'[h].pc # "spawned"
          /\ Len(chan[calls[h].chan].queue) >= ChanCap)
        => calls'[h].pc = "soft_error"]_vars


\* the place of an update in a sequence without repetitions, 0 when absent
PosIn(seq, x) == IF x \in Range(seq) THEN CHOOSE k \in DOMAIN seq : seq[k] = x ELSE 0

\* the origin of an update: the number of the user that made it
OriginOf(x) == x \div 10

TimeoutInit ==
  /\ SinkIdle
  /\ GroupIdle
  /\ SubIdle /\ DbIdle /\ SnapIdle /\ LeaseIdle /\ RegIdle /\ ConnIdle /\ FrontIdle
  /\ RunnerIdle /\ GenIdle /\ ForwardIdle /\ ServerIdle /\ RtIdle
  /\ send_timeout \in SendTimeouts
  /\ timeouts = <<>>

\* the first arm of the match taken one length too far
calculate_timeout_late(payload_len, default) ==
  CASE payload_len \in 0 .. 40960 -> default
    [] payload_len \in 40961 .. 1048576 -> 10
    [] payload_len \in 1048577 .. 2097152 -> 20
    [] payload_len \in 2097153 .. 4194304 -> 50
    [] OTHER -> 160

\* fn calculate_timeout: the arms of the match, in seconds
calculate_timeout(payload_len, default) ==
  CASE payload_len \in 0 .. 40959 -> default
    [] payload_len \in 40960 .. 1048576 -> 10
    [] payload_len \in 1048577 .. 2097152 -> 20
    [] payload_len \in 2097153 .. 4194304 -> 50
    [] OTHER -> 160

\* send_msg_immediately after a successful send: the wait for the ack is armed
ArmAckTimeout(payload_len) ==
  /\ Len(timeouts) < MaxSends
  /\ timeouts' = Append(timeouts,
                   [payload_len |-> payload_len,
                    timeout_duration |-> calculate_timeout(payload_len, send_timeout)])
  /\ UNCHANGED <<send_timeout, notTimeoutVars>>

TimeoutNext == \E payload_len \in PayloadLens : ArmAckTimeout(payload_len)

TimeoutSpec == TimeoutInit /\ [][TimeoutNext]_vars

\* the timeout table, by the bounds of its rows
TableTimeout(len) ==
  IF len < 40960 THEN send_timeout
  ELSE IF len <= 1048576 THEN 10
  ELSE IF len <= 2097152 THEN 20
  ELSE IF len <= 4194304 THEN 50
  ELSE 160

\* C22: the ack timeout is the table's value for the payload length, also at
\* the thresholds (below 40960 the default, up to 1048576 10 s, up to 2097152
\* 20 s, up to 4194304 50 s, above 160 s), and with a default of at most 10 s a
\* longer payload never gets a shorter timeout.
C22_TimeoutTable ==
  /\ \A i \in 1 .. Len(timeouts) :
       timeouts[i].timeout_duration = TableTimeout(timeouts[i].payload_len)
  /\ send_timeout <= 10
       => \A i, j \in 1 .. Len(timeouts) :
            timeouts[i].payload_len <= timeouts[j].payload_len
              => timeouts[i].timeout_duration <= timeouts[j].timeout_duration

\* C22 witness: with a default of 10 s the lengths on both sides of the first
\* threshold were sent, and the longest length of the second row
C22_Witness ==
  /\ send_timeout = 10
  /\ Len(timeouts) = 2
  /\ timeouts[1] = [payload_len |-> 40959, timeout_duration |-> 10]
  /\ timeouts[2] = [payload_len |-> 1048577, timeout_duration |-> 20]

(***************************************************************************)
(* Part XI, definitions.  The commands with a reply carry the sender of a   *)
(* oneshot channel; the requester keeps the receiver and may drop it.       *)
(***************************************************************************)
ReplyKinds == {"ContainsGroup", "NumberOfGroups"}

PlainKinds == {"CreateGroupIfNeed", "RemoveGroup"}

\* what the command leaves in group_by_object_id
ControlAfter(groups, command) ==
  CASE command.kind = "CreateGroupIfNeed" -> groups \cup {command.object_id}
    [] command.kind = "RemoveGroup" -> groups \ {command.object_id}
    [] OTHER -> groups

\* contains_group / number_of_groups
ControlResult(groups, command) ==
  IF command.kind = "ContainsGroup" THEN command.object_id \in groups
  ELSE Cardinality(groups)

\* a runner that ends its loop when a reply cannot be delivered
ReplyChecked(delivered) == delivered

\* let _ = ret.send(result): the outcome of the send is dropped
ReplyIgnored(delivered) == TRUE

\* a requester sends a command that carries a reply channel
SendWithRet(r, kind, object_id) ==
  /\ Len(issued) < MaxCommands
  /\ ret[r].st = "none"
  /\ ret' = [ret EXCEPT ![r] = [st |-> "waiting", val |-> "none"]]
  /\ recv' = Append(recv, [kind |-> kind, object_id |-> object_id, ret |-> r])
  /\ issued' = Append(issued, [kind |-> kind, object_id |-> object_id, ret |-> r])
  /\ UNCHANGED <<control, running, handled, notRunnerVars>>

\* a command without a reply channel is sent
SendPlain(kind, object_id) ==
  /\ Len(issued) < MaxCommands
  /\ recv' = Append(recv, [kind |-> kind, object_id |-> object_id, ret |-> "none"])
  /\ issued' = Append(issued, [kind |-> kind, object_id |-> object_id, ret |-> "none"])
  /\ UNCHANGED <<control, ret, running, handled, notRunnerVars>>

\* the requester is cancelled: its receiver is dropped before the reply
DropReceiver(r) ==
  /\ ret[r].st = "waiting"
  /\ ret' = [ret EXCEPT ![r].st = "dropped"]
  /\ UNCHANGED <<recv, control, running, issued, handled, notRunnerVars>>

\* one round of the for_each of run: the command is taken, the control
\* executes it, and the result is sent on the reply channel if there is one
RunnerHandle ==
  /\ running
  /\ recv # <<>>
  /\ LET command == Head(recv)
         r == command.ret
         delivered == r = "none" \/ ret[r].st = "waiting"
     IN /\ recv' = Tail(recv)
        /\ control' = ControlAfter(control, command)
        /\ ret' = IF r = "none" THEN ret
                  ELSE IF ret[r].st = "waiting"
                    THEN [ret EXCEPT ![r] = [st |-> "replied",
                                             val |-> ControlResult(control, command)]]
                    ELSE [ret EXCEPT ![r].st = "lost"]
        /\ running' = ReplyIgnored(delivered)
        /\ handled' = Append(handled, command)
  /\ UNCHANGED <<issued, notRunnerVars>>

RunnerNext ==
  \/ \E r \in Requesters, kind \in ReplyKinds, o \in GroupIds : SendWithRet(r, kind, o)
  \/ \E kind \in PlainKinds, o \in GroupIds : SendPlain(kind, o)
  \/ \E r \in Requesters : DropReceiver(r)
  \/ RunnerHandle

RunnerSpec == ServerInit /\ [][RunnerNext]_vars

RECURSIVE ControlOf(_)
\* the control after these commands, whatever became of their replies
ControlOf(commands) ==
  IF commands = <<>> THEN {}
  ELSE ControlAfter(ControlOf(SubSeq(commands, 1, Len(commands) - 1)),
                    commands[Len(commands)])

\* C26: a reply channel whose receiver was dropped does not disturb the
\* runner: the command is completed like any other, the control is what the
\* completed commands make it whether or not their replies were received, the
\* loop goes on, and no command sent later is skipped.
C26_AbandonedReply ==
  /\ running
  /\ issued = handled \o recv
  /\ control = ControlOf(handled)
  /\ \A r \in Requesters :
       ret[r].st \in {"replied", "lost"} => \E i \in 1 .. Len(handled) : handled[i].ret = r
  /\ (recv # <<>>) => ENABLED RunnerHandle

\* C26 witness: the receiver of the first command was dropped before the
\* runner answered; the runner completed it and then created a group
C26_Witness ==
  /\ Len(handled) = 2
  /\ handled[1] = [kind |-> "NumberOfGroups", object_id |-> "g1", ret |-> "r1"]
  /\ ret["r1"].st = "lost"
  /\ handled[2].kind = "CreateGroupIfNeed"
  /\ control = {handled[2].object_id}
  /\ running

(***************************************************************************)
(* Part XII, definitions.  did_apply_update is two atomic operations on     *)
(* apply_update_count, a fetch_add and, past the threshold, a store of 0;   *)
(* calls of different tasks interleave between the two.                     *)
(***************************************************************************)
\* fn gen_snapshot_threshold
gen_snapshot_threshold(collab_type) ==
  CASE collab_type = "Document" -> 100
    [] collab_type = "Database" -> 20
    [] collab_type = "WorkspaceDatabase" -> 20
    [] collab_type = "Folder" -> 20
    [] collab_type = "DatabaseRow" -> 10
    [] collab_type = "UserAwareness" -> 50

\* SnapshotGenerator::new
SnapshotGeneratorNew(collab_type) ==
  /\ generator = NoGenerator
  /\ generator' = [collab_type |-> collab_type, apply_update_count |-> 0]
  /\ UNCHANGED <<applying, applied, attempts, notGenVars>>

\* did_apply_update: apply_update_count.fetch_add(1)
ApplyFetchAdd(a) ==
  /\ generator # NoGenerator
  /\ applying[a].pc = "idle"
  /\ applied < gen_snapshot_threshold(generator.collab_type) + MaxOver
  /\ applying' = [applying EXCEPT ![a] =
                    [pc |-> "fetched", prev |-> generator.apply_update_count]]
  /\ generator' = [generator EXCEPT !.apply_update_count = @ + 1]
  /\ applied' = applied + 1
  /\ UNCHANGED <<attempts, notGenVars>>

\* did_apply_update: the threshold is reached, an attempt is spawned and the
\* counter is stored as 0
ApplySpawnAndReset(a) ==
  /\ applying[a].pc = "fetched"
  /\ applying[a].prev + 1 >= gen_snapshot_threshold(generator.collab_type)
  /\ attempts' = attempts + 1
  /\ generator' = [generator EXCEPT !.apply_update_count = 0]
  /\ applying' = [applying EXCEPT ![a] = NotApplying]
  /\ UNCHANGED <<applied, notGenVars>>

\* did_apply_update: below the threshold, return
ApplyReturn(a) ==
  /\ applying[a].pc = "fetched"
  /\ applying[a].prev + 1 < gen_snapshot_threshold(generator.collab_type)
  /\ applying' = [applying EXCEPT ![a] = NotApplying]
  /\ UNCHANGED <<generator, applied, attempts, notGenVars>>

GenNext ==
  \/ \E t \in CollabTypes : SnapshotGeneratorNew(t)
  \/ \E a \in Appliers : ApplyFetchAdd(a)
  \/ \E a \in Appliers : ApplySpawnAndReset(a)
  \/ \E a \in Appliers : ApplyReturn(a)

GenSpec == ServerInit /\ [][GenNext]_vars

\* C27: snapshot cadence.  Whatever the interleaving of the did_apply_update
\* calls, one snapshot attempt is spawned per T(K) counted updates: there are
\* never more attempts than full runs of T(K) updates, and once every call has
\* returned the attempts are exactly the full runs and the counter holds the
\* updates of the run that is not full.
C27_SnapshotCadence ==
  generator # NoGenerator =>
    LET T == gen_snapshot_threshold(generator.collab_type) IN
    /\ attempts * T <= applied
    /\ (\A a \in Appliers : applying[a].pc = "idle")
         => /\ attempts = applied \div T
            /\ generator.apply_update_count = applied % T

(***************************************************************************)
(* Further properties of the outbound sink.                                 *)
(***************************************************************************)
WakeOps == {"wake_paused", "wake_queue_busy", "wake_empty", "wake_pop_done",
            "wake_pop_processing", "wake_sender_busy", "start_send"}

\* pause and resume touch neither the queue nor the runner, and resume notifies
PauseResumeFrame ==
  /\ last'.op \in {"pause", "resume"}
       => /\ message_queue' = message_queue
          /\ sending' = sending
          /\ rx' = rx
          /\ pc' = pc
  /\ last'.op = "pause" => pause'
  /\ last'.op = "resume" => ~pause' /\ notified'

\* a wake that starts while the sink is paused returns at once
PausedWakeIdle ==
  (pause /\ last'.op \in WakeOps)
    => /\ last'.op = "wake_paused"
       /\ message_queue' = message_queue
       /\ sending' = sending
       /\ pc' = "idle"

\* the wake that follows resume finds a Pending head
ResumeWake ==
  /\ last.op = "resume"
  /\ last'.op \in WakeOps
  /\ message_queue # {}
  /\ Peek(message_queue).state = "Pending"

\* that wake hands the head to the transport
HeadSent ==
  /\ last'.op = "start_send"
  /\ last'.id = Peek(message_queue).msg_id
  /\ pc' = "sending"
  /\ sending'.msg_id = Peek(message_queue).msg_id
  /\ Peek(message_queue).payload \subseteq sending'.payload

\* C21 as stated: pause and resume leave the queue and every message state
\* unchanged, a wake that starts while the sink is paused sends nothing and
\* moves no message to Processing, and the wake that resume triggers sends the
\* pending head.
C21_ResumeWakeAlwaysSends ==
  [][PauseResumeFrame /\ PausedWakeIdle /\ (ResumeWake => HeadSent)]_vars

\* C21: pause and resume leave the queue and every message state unchanged, a
\* wake that starts while the sink is paused sends nothing and moves no message
\* to Processing, and the wake that resume triggers sends the pending head when
\* it finds the queue lock and the transport lock free.
C21_PauseResumeKeepQueue ==
  [][/\ PauseResumeFrame
     /\ PausedWakeIdle
     /\ (ResumeWake /\ ~queue_locked /\ ~sender_locked) => HeadSent]_vars

\* C21 witness: the sink was paused with a message queued, nothing was sent
\* since, and resume has just notified the idle runner
C21_Witness ==
  /\ last.op = "resume"
  /\ sink_state = "Pause"
  /\ ~pause
  /\ notified
  /\ pc = "idle"
  /\ ~queue_locked
  /\ ~sender_locked
  /\ message_queue = {QueueItem(0, "Update")}

InitSyncOps == {"queue_init_sync", "queue_init_sync_noop"}

\* the greatest item of the queue is an Init message
HeadIsInit == \E it \in message_queue :
                /\ it.kind = "Init"
                /\ \A y \in message_queue \ {it} : Higher(it, y)

\* C23: can_queue_init_sync is true if and only if the head of the queue is
\* not an Init message (true on an empty queue), and queue_init_sync agrees
\* with it: where it is false queue_init_sync leaves the queue as it is, takes
\* no msg-id and builds no message; where it is true queue_init_sync replaces
\* the content of the queue by the new Init message.
C23_InitSyncAgreement ==
  [][/\ can_queue_init_sync <=> ~HeadIsInit
     /\ (last'.op \in InitSyncOps /\ ~can_queue_init_sync)
          => /\ last'.op = "queue_init_sync_noop"
             /\ message_queue' = message_queue
             /\ msg_id_counter' = msg_id_counter
             /\ assigned' = assigned
     /\ (last'.op \in InitSyncOps /\ can_queue_init_sync)
          => /\ last'.op = "queue_init_sync"
             /\ message_queue' = {QueueItem(msg_id_counter, "Init")}
             /\ assigned' = Append(assigned, msg_id_counter)]_vars

\* C23 witness: queue_init_sync was called with an Init at the head and an
\* update queued behind it, and did nothing
C23_Witness ==
  /\ last.op = "queue_init_sync_noop"
  /\ ~can_queue_init_sync
  /\ Cardinality(message_queue) = 2
  /\ Len(assigned) = 2
  /\ Peek(message_queue).kind = "Init"

DoneIds(q) == {it.msg_id : it \in {x \in q : x.state = "Done"}}

\* the ack is for the head, and the head is waiting to be sent or sent again
AckOfUnsentHead(q, msg_id) ==
  /\ q # {}
  /\ Peek(q).msg_id = msg_id
  /\ Peek(q).state \in {"Pending", "Timeout"}

\* C24: a message becomes Done only by an ack whose msg-id is the msg-id of
\* the head while the head is Processing; an ack whose msg-id is that of a head
\* in state Pending or Timeout changes no state.
C24_AckOnlyProcessingHead ==
  [][/\ DoneIds(message_queue') \ DoneIds(message_queue) # {}
          => /\ last'.op = "ack_done"
             /\ DoneIds(message_queue') \ DoneIds(message_queue) = {last'.id}
             /\ Peek(message_queue).msg_id = last'.id
             /\ Peek(message_queue).state = "Processing"
     /\ (last'.op \in AckOps /\ AckOfUnsentHead(message_queue, last'.id))
          => /\ last'.op = "ack_not_processing"
             /\ message_queue' = message_queue
             /\ rx' = rx
             /\ notified' = notified
             /\ pc' = pc]_vars

\* C24 witness: the ack of the head arrived after the wait for it had timed
\* out, and the head is still Timeout
C24_Witness ==
  /\ last.op = "ack_not_processing"
  /\ message_queue # {}
  /\ Peek(message_queue).msg_id = last.id
  /\ Peek(message_queue).state = "Timeout"
  /\ Peek(message_queue).sent

\* C30: a contended lock neither blocks the runner nor loses the message.  A
\* wake that finds the queue mutex or the transport mutex taken returns to
\* idle with a retry scheduled and the message still queued, the retry
\* notifies the runner, and a message whose send was put off this way leaves
\* the queue only after it was sent (or by clear or a displacing init sync).
C30_ContentionKeepsMessage ==
  [][/\ last'.op = "wake_queue_busy"
          => retry' /\ pc' = "idle" /\ message_queue' = message_queue
     /\ last'.op = "wake_sender_busy"
          => /\ retry'
             /\ pc' = "idle"
             /\ \E it \in message_queue' :
                  it.msg_id = last'.id /\ Peek(message_queue).payload \subseteq it.payload
     /\ last'.op = "retry_fires" => notified'
     /\ last'.op \notin {"clear", "queue_init_sync"}
          => \A it \in message_queue :
               (it.deferred /\ ~it.sent /\ it.state # "Done")
                 => it.payload \subseteq Carried(message_queue')]_vars

\* C31: on a transport send error the runner stops, the failure is published
\* on the sink-state channel (the published state does not stay Syncing), and
\* the message whose send failed stays in the queue.
C31_SendErrorSurfaced ==
  [][last'.op = "send_err"
       => /\ sink_state' # "Syncing"
          /\ pc' = "stopped"
          /\ MsgIds(message_queue') = MsgIds(message_queue)]_vars

\* C32: an init sync is exempt from the write-permission check but not from
\* the object check.  An inbound init sync of the channel's object goes to the
\* group whatever can-send answers or would answer, and an inbound message of
\* another object, init sync included, is dropped.
C32_InitSyncExempt ==
  [][/\ \A u \in Users :
          (/\ glast'.op \in {"stream_pass", "stream_drop"}
           /\ glast'.user = u
           /\ Head(inbound[u]).kind = "init"
           /\ Head(inbound[u]).object = "O")
            => /\ glast'.op = "stream_pass"
               /\ group_stream'[u] = Append(group_stream[u], Head(inbound[u]))
     /\ glast'.op = "send_other" => group_stream' = group_stream
     /\ \A answer \in AnswerSet, payload \in SUBSET doc :
          /\ stream_filter("O", Frame("init", "O", payload), answer)
          /\ \A kind \in {"init", "update"} :
               ~stream_filter("O", Frame(kind, "X", payload), answer)]_vars

\* C32 witness: the init sync of a member without any access to the object
\* went through the stream filter into the stream of the group
C32_Witness ==
  /\ glast = [op |-> "stream_pass", user |-> "u2", answer |-> "none"]
  /\ level["u2"] = "none"
  /\ ~can_send_collab_update("u2")
  /\ Len(group_stream["u2"]) = 1
  /\ group_stream["u2"][1].kind = "init"
  /\ group_stream["u2"][1].object = "O"

(***************************************************************************)
(* Further properties of the command front-end.                            *)
(***************************************************************************)
\* the tasks of the runtime are scheduled again and again: a spawned send
\* task and a consumer that can take a step take it in the end
FrontFairSpec ==
  /\ FrontSpec
  /\ \A h \in Callers :
       /\ WF_vars(Notified(h))
       /\ WF_vars(SpawnSend(h))
       /\ WF_vars(SendCommand(h))
       /\ WF_vars(SendResume(h))
  /\ \A c \in ChanIds :
       /\ WF_vars(ConsumerReady(c))
       /\ WF_vars(ConsumerRecv(c))
       /\ WF_vars(ConsumerDone(c))
       /\ WF_vars(ConsumerEnd(c))

\* the sweeper has removed the sender of the channel from the map
Swept(c) == c \in Created /\ group_sender_by_object_id[chan[c].oid] # c

\* the commands of the channel that are sent and not handled yet
Waiting(c) == {h \in Callers : calls[h].chan = c /\ calls[h].pc = "sent"}

\* C33: eviction ends the consumer without losing queued commands.  The
\* consumer of a channel ends only when the channel is closed and empty; when
\* it has ended, every command that was in the channel when the sweeper
\* removed its sender has been handled and no command sent on it is left
\* unhandled; and the consumer of a channel whose sender the sweeper has
\* removed ends in the end.
C33_EvictionDrains ==
  /\ [](\A c \in ChanIds : chan[c].consumer = "ended" =>
          /\ Swept(c)
          /\ chan[c].queue = <<>>
          /\ chan[c].cur = "none"
          /\ Waiting(c) = {}
          /\ \A h \in chan[c].left : calls[h].pc = "done")
  /\ [][\A c \in ChanIds :
          (chan[c].consumer # "ended" /\ chan'[c].consumer = "ended")
            => /\ chan[c].queue = <<>>
               /\ chan[c].consumer = "waiting"
               /\ \A h \in Callers : ~(Holding(h) /\ calls[h].chan = c)]_vars
  /\ \A c \in ChanIds : Swept(c) ~> (chan[c].consumer = "ended")

\* C33 witness: a command was waiting in the channel when the sweeper removed
\* its sender; the consumer has handled it and has ended
C33_Witness ==
  /\ chan[1].consumer = "ended"
  /\ chan[1].left # {}
  /\ \A h \in chan[1].left : calls[h].pc = "done"
  /\ group_sender_by_object_id["o1"] # 1
  /\ sweeps["o1"] = 1

\* the messages of the queue that wait to be sent
WaitingMsgs(q) == {it \in q : it.state \in {"Pending", "Timeout"}}

\* the runner has picked the message of its last step to send it
PickOps == {"start_send", "wake_sender_busy"}

C35_AckRemovesAckedMessage ==
  [][(last'.op = "ack_received" /\ last'.id # -1)
       => \E it \in message_queue :
            /\ it.msg_id = last'.id
            /\ it.msg_id \notin MsgIds(message_queue')
            /\ it.msg_id = sending.msg_id
            /\ it.sent
            /\ it.state = "Done"]_vars

\* C36: submission order is kept into the command loop.  When a call of
\* handle_client_message for an object began after an earlier call for the
\* same object had returned, and both sent their batch to the same consumer,
\* the consumer receives the batch of the earlier call first.
C36_SubmissionOrder ==
  [][\A c \in ChanIds :
       (chan'[c].cur # chan[c].cur /\ chan'[c].cur # "none")
         => \A h \in calls[chan'[c].cur].prior :
              calls[h].chan = c => calls[h].pc = "done"]_vars

(***************************************************************************)
(* Part XIII, definitions.  Inbound frames of a connection go through the   *)
(* broadcast channel of its client stream to the forwarding task of the     *)
(* object's client channel, and from there to the stream the group reads.   *)
(***************************************************************************)
\* the stream filter of the channel, for a user that may write
PassesFilter(msg) == stream_filter("O", msg, "yes")

\* client_channel: stream_rx is subscribed and the forwarding task is spawned
client_channel ==
  /\ forwarder.pc = "none"
  /\ forwarder' = [pc |-> "running", held |-> NoFrame]
  /\ UNCHANGED <<notForwardVars, stream_tx, lagged, client_forward_stream, group_read,
                 frames_sent>>

\* forward_message_to_collab_group: stream_tx.send.  A full broadcast channel
\* overwrites its oldest value, which a receiver that has not read it misses;
\* without a receiver the send fails and the error is logged.
forward_message_to_collab_group(object) ==
  LET msg == [n |-> Len(frames_sent) + 1, object |-> object, kind |-> "update"] IN
  /\ forwarder.pc # "none"
  /\ Len(frames_sent) < MaxFrames
  /\ frames_sent' = Append(frames_sent, msg)
  /\ IF forwarder.pc = "ended"
       THEN UNCHANGED <<stream_tx, lagged>>
       ELSE IF Len(stream_tx) = BcastCap
              THEN /\ stream_tx' = Append(Tail(stream_tx), msg)
                   /\ lagged' = TRUE
              ELSE /\ stream_tx' = Append(stream_tx, msg)
                   /\ UNCHANGED lagged
  /\ UNCHANGED <<notForwardVars, forwarder, client_forward_stream, group_read>>

\* one turn of `while let Some(Ok(Ok(msg))) = stream_rx.next().await`: a
\* receiver that has missed values gets Some(Err(Lagged)), which the pattern
\* does not match, so the loop and the task end and stream_rx is dropped;
\* otherwise the next value is filtered and sent to the group's stream, where
\* the task waits while that channel is full
ForwarderNext ==
  /\ forwarder.pc = "running"
  /\ lagged \/ stream_tx # <<>>
  /\ IF lagged
       THEN /\ forwarder' = [pc |-> "ended", held |-> NoFrame]
            /\ stream_tx' = <<>>
            /\ lagged' = FALSE
            /\ UNCHANGED client_forward_stream
       ELSE /\ stream_tx' = Tail(stream_tx)
            /\ UNCHANGED lagged
            /\ IF ~PassesFilter(Head(stream_tx))
                 THEN UNCHANGED <<forwarder, client_forward_stream>>
                 ELSE IF Len(client_forward_stream) < StreamCap
                   THEN /\ client_forward_stream' =
                             Append(client_forward_stream, Head(stream_tx))
                        /\ UNCHANGED forwarder
                   ELSE /\ forwarder' = [pc |-> "blocked", held |-> Head(stream_tx)]
                        /\ UNCHANGED client_forward_stream
  /\ UNCHANGED <<notForwardVars, group_read, frames_sent>>

\* tx.send(..).await gets room
ForwarderResume ==
  /\ forwarder.pc = "blocked"
  /\ Len(client_forward_stream) < StreamCap
  /\ client_forward_stream' = Append(client_forward_stream, forwarder.held)
  /\ forwarder' = [pc |-> "running", held |-> NoFrame]
  /\ UNCHANGED <<notForwardVars, stream_tx, lagged, group_read, frames_sent>>

\* the group takes the next message from client_forward_stream
GroupRead ==
  /\ client_forward_stream # <<>>
  /\ group_read' = Append(group_read, Head(client_forward_stream))
  /\ client_forward_stream' = Tail(client_forward_stream)
  /\ UNCHANGED <<notForwardVars, stream_tx, lagged, forwarder, frames_sent>>

ForwardNext ==
  \/ client_channel
  \/ \E object \in {"O", "X"} : forward_message_to_collab_group(object)
  \/ ForwarderNext
  \/ ForwarderResume
  \/ GroupRead

ForwardSpec == ServerInit /\ [][ForwardNext]_vars

\* the frames of a sequence that pass the stream filter, in order
Filtered(seq) == SelectSeq(seq, PassesFilter)

\* the message the forwarder holds while it waits for room
Held == IF forwarder.pc = "blocked" THEN <<forwarder.held>> ELSE <<>>

\* C37: the inbound forwarder keeps working for the life of the connection.
\* The forwarding task has not ended, and the frames that passed the stream
\* filter are, in arrival order, the ones the group has read followed by the
\* ones on their way to it: none is lost and none overtakes another.
C37_ForwarderKeepsWorking ==
  /\ forwarder.pc # "ended"
  /\ group_read \o client_forward_stream \o Held \o Filtered(stream_tx)
       = Filtered(frames_sent)

(***************************************************************************)
(* Part XIV, definitions.  The handlers return futures that the actor runs  *)
(* side by side: a handler can be suspended at an await while another one   *)
(* runs.  remove_user takes the client stream and the editing set of the    *)
(* user without an await in between, and then leaves the groups one by one. *)
(***************************************************************************)
\* the tasks that run remove_user for the user
Removing(u) == {t \in RemovalIds : removals[t].user = u /\ removals[t].pc = "loop"}

\* the position of a handler whose remove_user has returned
AfterRemove(from) == IF from = "connect" THEN "removed" ELSE "done"

\* remove_user, lines 62-66: the client stream and the editing set of the
\* user are removed; the map of the streams is not available while a
\* SubscribeGroup::run holds the user's entry.  With an empty editing set
\* remove_user returns at once.
remove_user_begin(t, u, from) ==
  LET editing_set == editing_collab_by_user[u] IN
  /\ removals[t].pc = "idle"
  /\ subscribing[u] = "none"
  /\ client_stream_by_user' = client_stream_by_user \ {u}
  /\ editing_collab_by_user' = [editing_collab_by_user EXCEPT ![u] = {}]
  /\ removals' = [removals EXCEPT ![t] =
                    [pc |-> IF editing_set = {} THEN AfterRemove(from) ELSE "loop",
                     from |-> from, user |-> u, todo |-> editing_set]]
  /\ vlast' = [op |-> IF editing_set = {} THEN "remove_user_end" ELSE "remove_user_begin",
               user |-> u]
  /\ UNCHANGED <<notServerVars, cached_groups, group_users, subscribing>>

\* remove_user_from_group for one entry of the editing set: the user leaves
\* the group, and a group left empty is removed from the cache; after the
\* last entry remove_user returns
remove_user_from_group(t, object_id) ==
  LET u == removals[t].user
      left == group_users[object_id] \ {u}
      rest == removals[t].todo \ {object_id} IN
  /\ removals[t].pc = "loop"
  /\ object_id \in removals[t].todo
  /\ removals' = [removals EXCEPT ![t].todo = rest,
                                  ![t].pc = IF rest = {} THEN AfterRemove(removals[t].from)
                                            ELSE "loop"]
  /\ IF object_id \in cached_groups
       THEN /\ group_users' = [group_users EXCEPT ![object_id] = left]
            /\ cached_groups' = IF left = {} THEN cached_groups \ {object_id}
                                ELSE cached_groups
       ELSE UNCHANGED <<group_users, cached_groups>>
  /\ vlast' = [op |-> IF rest = {} THEN "remove_user_end" ELSE "remove_user_from_group",
               user |-> u]
  /\ UNCHANGED <<notServerVars, client_stream_by_user, editing_collab_by_user, subscribing>>

\* Handler<Connect>, after remove_user: the stream of the new connection is
\* registered
ConnectInsert(t) ==
  /\ removals[t].pc = "removed"
  /\ subscribing[removals[t].user] = "none"
  /\ client_stream_by_user' = client_stream_by_user \cup {removals[t].user}
  /\ removals' = [removals EXCEPT ![t].pc = "done"]
  /\ vlast' = [op |-> "connect", user |-> removals[t].user]
  /\ UNCHANGED <<notServerVars, editing_collab_by_user, cached_groups, group_users, subscribing>>

\* the group of the object is made for a client message
CreateGroup(object_id) ==
  /\ object_id \notin cached_groups
  /\ cached_groups' = cached_groups \cup {object_id}
  /\ group_users' = [group_users EXCEPT ![object_id] = {}]
  /\ vlast' = [op |-> "create_group", user |-> "none"]
  /\ UNCHANGED <<notServerVars, client_stream_by_user, editing_collab_by_user, removals,
                 subscribing>>

\* SubscribeGroup::run, lines 162-169: the Editing entry of the object is
\* inserted before collab_group.subscribe is called
EditingBefore(entries, object_id) == entries \cup {object_id}

\* SubscribeGroup::run for a user that has a stream and is not in the group.
\* The Editing entry is inserted, then CollabGroup::subscribe runs: it
\* removes the subscriber of another session of the device and awaits its
\* stop, and only then inserts the user; without such a subscriber it has no
\* await
SubscribeGroupRun(u, object_id) ==
  LET old == group_users[object_id] \ {u} IN
  /\ u \in client_stream_by_user
  /\ subscribing[u] = "none"
  /\ object_id \in cached_groups
  /\ u \notin group_users[object_id]
  /\ editing_collab_by_user' =
       [editing_collab_by_user EXCEPT ![u] = EditingBefore(@, object_id)]
  /\ IF old = {}
       THEN /\ group_users' = [group_users EXCEPT ![object_id] = {u}]
            /\ UNCHANGED subscribing
       ELSE /\ group_users' = [group_users EXCEPT ![object_id] = {}]
            /\ subscribing' = [subscribing EXCEPT ![u] = object_id]
  /\ vlast' = [op |-> "subscribe", user |-> u]
  /\ UNCHANGED <<notServerVars, client_stream_by_user, cached_groups, removals>>

\* CollabGroup::subscribe after old_sub.stop().await: the user is inserted
\* into the subscribers of the group it holds; a group that was removed from
\* the cache in the meantime is not the group of the object any more
SubscribeGroupResume(u) ==
  LET object_id == subscribing[u] IN
  /\ object_id # "none"
  /\ subscribing' = [subscribing EXCEPT ![u] = "none"]
  /\ group_users' = IF object_id \in cached_groups
                    THEN [group_users EXCEPT ![object_id] = @ \cup {u}]
                    ELSE group_users
  /\ vlast' = [op |-> "subscribed", user |-> u]
  /\ UNCHANGED <<notServerVars, client_stream_by_user, editing_collab_by_user, cached_groups,
                 removals>>

CollabServerNext ==
  \/ \E t \in RemovalIds, u \in SUsers, from \in {"connect", "disconnect"} :
       remove_user_begin(t, u, from)
  \/ \E t \in RemovalIds, o \in SObjects : remove_user_from_group(t, o)
  \/ \E t \in RemovalIds : ConnectInsert(t)
  \/ \E o \in SObjects : CreateGroup(o)
  \/ \E u \in SUsers, o \in SObjects : SubscribeGroupRun(u, o)
  \/ \E u \in SUsers : SubscribeGroupResume(u)

CollabServerSpec == ServerInit /\ [][CollabServerNext]_vars

\* the groups the user is a subscriber of
GroupsOf(u) == {o \in SObjects : u \in group_users[o]}

\* C38: every subscription is recorded for cleanup.  Whenever a user is a
\* subscriber of the group of an object, the user's editing set has an entry
\* for the object; and when remove_user has completed for a user, the user is
\* a subscriber of no group and has no registered client stream.
C38_SubscriptionRecorded ==
  /\ \A u \in SUsers : GroupsOf(u) \subseteq editing_collab_by_user[u]
  /\ vlast.op = "remove_user_end" =>
       /\ GroupsOf(vlast.user) = {}
       /\ vlast.user \notin client_stream_by_user

(***************************************************************************)
(* Part XV, definitions.  A GetEncodeCollab request is answered by the task *)
(* of spawn_rt_command when the object has no command sender, and is passed *)
(* to the consumer of the object's command channel otherwise.               *)
(***************************************************************************)
\* a send that fails whenever the channel has no room
SendFailedWhenFull(c) == chan[c].consumer = "ended" \/ Len(chan[c].queue) >= ChanCap

\* sender.send(..).await returns Err: the receiver of the channel is gone
SendFailed(c) == chan[c].consumer = "ended"

\* a requester sends RTCommand::GetEncodeCollab with the sender of its reply
\* channel
RtRequest(r, object_id) ==
  /\ ret_reply[r] = "unsent"
  /\ command_recv' = Append(command_recv, [by |-> r, object_id |-> object_id])
  /\ ret_reply' = [ret_reply EXCEPT ![r] = "pending"]
  /\ UNCHANGED <<notRtVars, rt_task>>

\* one turn of the loop of spawn_rt_command: without a sender for the object
\* ret gets None; with one the command goes to the group's channel, where the
\* task waits while the channel is full; a failed send drops the command and
\* ret with it
RtHandle ==
  LET cmd == Head(command_recv)
      c == group_sender_by_object_id[cmd.object_id] IN
  /\ rt_task.pc = "recv"
  /\ command_recv # <<>>
  /\ command_recv' = Tail(command_recv)
  /\ IF c = 0
       THEN /\ ret_reply' = [ret_reply EXCEPT ![cmd.by] = "None"]
            /\ UNCHANGED <<chan, rt_task>>
       ELSE IF SendFailed(c)
         THEN /\ ret_reply' = [ret_reply EXCEPT ![cmd.by] = "dropped"]
              /\ UNCHANGED <<chan, rt_task>>
         ELSE IF Len(chan[c].queue) < ChanCap
           THEN /\ chan' = [chan EXCEPT ![c].queue = Append(@, cmd.by)]
                /\ UNCHANGED <<ret_reply, rt_task>>
           ELSE /\ rt_task' = [pc |-> "send", cmd |-> cmd]
                /\ UNCHANGED <<ret_reply, chan>>
  /\ UNCHANGED <<notFrontRtVars, group_sender_by_object_id, calls, sweeps, flast>>

\* the waiting send gets room
RtSendResume ==
  LET c == group_sender_by_object_id[rt_task.cmd.object_id] IN
  /\ rt_task.pc = "send"
  /\ Len(chan[c].queue) < ChanCap
  /\ chan' = [chan EXCEPT ![c].queue = Append(@, rt_task.cmd.by)]
  /\ rt_task' = [pc |-> "recv", cmd |-> NoRtCommand]
  /\ UNCHANGED <<notFrontRtVars, group_sender_by_object_id, calls, sweeps, flast,
                 command_recv, ret_reply>>

\* the consumer of the channel takes an EncodeCollab command and answers on
\* ret with the encoded document of the group, or with None when it has none
ConsumerEncode(c, answer) ==
  /\ chan[c].consumer = "waiting"
  /\ chan[c].queue # <<>>
  /\ Head(chan[c].queue) \in Requesters
  /\ chan' = [chan EXCEPT ![c].queue = Tail(@)]
  /\ ret_reply' = [ret_reply EXCEPT ![Head(chan[c].queue)] = answer]
  /\ UNCHANGED <<notFrontRtVars, group_sender_by_object_id, calls, sweeps, flast,
                 command_recv, rt_task>>

\* the calls of handle_client_message that run beside the requests
RtCallers == {"c1", "c2"}

RtNext ==
  \/ \E h \in RtCallers, o \in Oids : GetSender(h, o)
  \/ \E h \in RtCallers : EntryOccupiedClone(h)
  \/ \E h \in RtCallers : EntryVacantCreate(h)
  \/ \E h \in RtCallers : Notified(h)
  \/ \E h \in RtCallers : SpawnSend(h)
  \/ \E h \in RtCallers : SendCommand(h)
  \/ \E h \in RtCallers : SendResume(h)
  \/ \E c \in ChanIds : ConsumerReady(c)
  \/ \E c \in ChanIds : ConsumerRecv(c)
  \/ \E c \in ChanIds : ConsumerDone(c)
  \/ \E c \in ChanIds : ConsumerEnd(c)
  \/ \E o \in Oids : SweepInactive(o)
  \/ \E r \in Requesters, o \in Oids : RtRequest(r, o)
  \/ RtHandle
  \/ RtSendResume
  \/ \E c \in ChanIds, answer \in {"GroupSome", "GroupNone"} : ConsumerEncode(c, answer)

RtSpec == ServerInit /\ [][RtNext]_vars

\* the tasks of the runtime are scheduled again and again
RtFairSpec ==
  /\ RtSpec
  /\ WF_vars(RtHandle)
  /\ WF_vars(RtSendResume)
  /\ \A c \in ChanIds :
       /\ WF_vars(ConsumerReady(c))
       /\ WF_vars(ConsumerRecv(c))
       /\ WF_vars(ConsumerDone(c))
       /\ WF_vars(\E answer \in {"GroupSome", "GroupNone"} : ConsumerEncode(c, answer))

\* the answers a reply channel can carry
Answered == {"None", "GroupSome", "GroupNone"}

\* C39: every GetEncodeCollab request gets an answer on its reply channel.
\* No reply channel is dropped without a value.  When the task takes a
\* request for an object without a registered command sender, the reply is
\* None and neither the map of the senders nor any channel changes; when a
\* sender is registered, the request goes to the channel of that sender, at
\* once or after the task has waited for room, and the map is left as it is.
\* Under fair scheduling every request that was sent is answered.
C39_EncodeCollabAnswered ==
  /\ [](\A r \in Requesters : ret_reply[r] # "dropped")
  /\ [][(rt_task.pc = "recv" /\ command_recv # <<>> /\ command_recv' = Tail(command_recv))
          => LET cmd == Head(command_recv)
                 c == group_sender_by_object_id[cmd.object_id] IN
             /\ group_sender_by_object_id' = group_sender_by_object_id
             /\ IF c = 0
                  THEN /\ ret_reply'[cmd.by] = "None"
                       /\ chan' = chan
                  ELSE /\ ret_reply'[cmd.by] = "pending"
                       /\ \/ chan'[c].queue = Append(chan[c].queue, cmd.by)
                          \/ rt_task' = [pc |-> "send", cmd |-> cmd]]_vars
  /\ [][rt_task.pc = "send" /\ rt_task'.pc = "recv"
          => LET c == group_sender_by_object_id[rt_task.cmd.object_id] IN
             chan'[c].queue = Append(chan[c].queue, rt_task.cmd.by)]_vars
  /\ \A r \in Requesters : (ret_reply[r] = "pending") ~> (ret_reply[r] \in Answered)

\* C39 witness: one request found no command sender and was answered None
\* without a channel being made; the other one was passed to the group of a
\* registered sender and answered by its consumer
C39_Witness ==
  /\ ret_reply["r1"] = "None"
  /\ ret_reply["r2"] = "GroupSome"
  /\ Cardinality(Created) = 1

(***************************************************************************)
(* The registry under the commands that make and remove groups, with        *)
(* subscribers that come and go and time that passes in between.            *)
(***************************************************************************)
IdemNext ==
  \/ \E o \in GroupIds, t \in CollabTypes : create_group_if_need(o, t)
  \/ \E o \in GroupIds : remove_group(o)
  \/ \E o \in GroupIds : GroupSubscribe(o)
  \/ \E o \in GroupIds : GroupRemoveUser(o)
  \/ \E o \in GroupIds : Touch(o)
  \/ RegClockAdvance(10 * 60)

IdemSpec == ServerInit /\ [][IdemNext]_vars

\* C40: create_group_if_need is idempotent.  A call for an object id that
\* has a group leaves the registry as it is: the group, the time of its last
\* change and its subscribers are kept and no group is made.  After any
\* sequence of commands every object id has at most one group that was made
\* and not stopped, and that group is the one in the registry.
C40_CreateIdempotent ==
  /\ [][(tlast'.op = "create" /\ group_by_object_id[tlast'.oid] # NoGroup)
          => /\ group_by_object_id' = group_by_object_id
             /\ user_count' = user_count
             /\ live_groups' = live_groups]_vars
  /\ [](\A o \in AllGroupIds :
          /\ live_groups[o] <= 1
          /\ live_groups[o] = 1 <=> group_by_object_id[o] # NoGroup)

\* C40 witness: create_group_if_need was called for a group that has a
\* subscriber and was last changed ten minutes ago
C40_Witness ==
  /\ tlast = [op |-> "create", oid |-> "g1", found |-> TRUE]
  /\ user_count["g1"] = 1
  /\ group_by_object_id["g1"].idle = 600
  /\ live_groups["g1"] = 1

====
